---- MODULE Spec2Model ----
(***************************************************************************)
(* Route Timeline Engine of route-animator: the zustand store of           *)
(* src/store/routeStore.ts (route model and playback state machine).       *)
(*                                                                         *)
(* Numbers.  currentProgress and segmentProgress are JavaScript numbers in *)
(* [0,1]; the model keeps them as integers counting units of 1/PScale, so  *)
(* the value 1 is PScale and "x mod 1" is "x % PScale".  A tick's          *)
(* increment (deltaTime / 1000) * 0.05 * speed is rounded to a             *)
(* representable number: to the nearest double in the program, down to a   *)
(* multiple of 1/PScale in the model.  The deltaTimes of DeltaTimes are    *)
(* multiples of TickUnit, whose increments are exact; SpecRounding adds    *)
(* one that is not.                                                        *)
(*                                                                         *)
(* Dates are the readings of a logical clock `now`.  generateId() returns  *)
(* a random string; ids are naturals, a new waypoint or segment id is the  *)
(* least one not held by a waypoint (segment) of the route being replaced  *)
(* or by the selection.  The route id is compared with nothing: it is      *)
(* always 1.                                                               *)
(*                                                                         *)
(* Capture.  `capture` is the export run of ExportPanel.handleExport: the   *)
(* MediaRecorder, the capture interval, the two timeouts, the export flags  *)
(* and a clock in milliseconds since the run started.  handleExport runs to *)
(* completion; capture.pc is its position between the recorder start, the   *)
(* stop() and the play() it makes, and nothing else runs in between.        *)
(*                                                                         *)
(* Around the store.  `frame` is the last value of getAnimationFrame,       *)
(* `routing` the lookups of WaypointPanel.handleFetchRoutes that have not   *)
(* settled yet, `savedRoute` the route file SettingsPanel wrote last.       *)
(* Coordinates are pairs of integers; text written by JSON.stringify is a   *)
(* record whose optional properties are sequences of at most one value.     *)
(***************************************************************************)
EXTENDS Integers, Sequences, FiniteSets, TLC

VARIABLES route, selectedWaypointId, selectedSegmentId, animation, now, lastOp,
          capture, frame, routing, savedRoute

vars == <<route, selectedWaypointId, selectedSegmentId, animation, now, lastOp,
          capture, frame, routing, savedRoute>>

(* ------------------------------ bounds --------------------------------- *)
MaxWp == 3
PScale == 4
MaxClock == 1
MaxFrames == 1

(* -------------------------- program constants -------------------------- *)
RatePercent == 5
MsPerSecond == 1000
NearOnePercent == 99
GraceMs == 500
HardTimeoutMs == 300000
FramesPerSecond == 30
ArcNumPoints == 50

(* -------------------------- values and inputs -------------------------- *)
NoId == 0
UndefCoord == <<>>
UndefLabel == "undefined"

Places == {[coordinates |-> <<0, 0>>, label |-> UndefLabel],
           [coordinates |-> <<1, 0>>, label |-> "Home"]}
TransportModes == {"car", "plane"}
SPEED_OPTIONS == {1, 2}
Names == {"Nueva Ruta"}
PathInputs == {<<<<0, 0>>, <<1, 1>>, <<1, 0>>>>}
IndexInputs == (0 - 1) .. MaxWp
ProgressInputs == 0 .. PScale
TickUnit == (MsPerSecond * 100) \div (RatePercent * PScale)
DeltaTimes == {0, TickUnit, 2 * TickUnit}
(* the ends of the duration slider, in seconds *)
DurationInputs == {5, 30}
PositiveDeltaTimes == (DeltaTimes \ {0}) \cup {d * MsPerSecond : d \in DurationInputs}
(* a deltaTime whose increment at speed 1 is not a multiple of 1/PScale *)
HalfTick == TickUnit \div 2
RoundedDeltaTimes == DeltaTimes \cup {HalfTick}
Updates == {[coordinates |-> <<1, 0>>, label |-> "Home"],
            [coordinates |-> <<0, 0>>, label |-> UndefLabel]}

Min(a, b) == IF a < b THEN a ELSE b
Max(a, b) == IF a > b THEN a ELSE b

Null == [id |-> NoId, name |-> "", waypoints |-> <<>>, segments |-> <<>>,
         createdAt |-> 0, updatedAt |-> 0]

InitialAnimation == [isPlaying |-> FALSE, isPaused |-> FALSE, currentProgress |-> 0,
                     currentSegmentIndex |-> 0, segmentProgress |-> 0, speed |-> 1]

(* The playback state named by the two flags. *)
PlaybackState(a) ==
  IF a.isPlaying /\ a.isPaused THEN "Both"
  ELSE IF a.isPlaying THEN "Playing"
  ELSE IF a.isPaused THEN "Paused"
  ELSE "Stopped"

Op(name) == [op |-> name, from |-> PlaybackState(animation)]

(* generateId(): a string equal to no id of the same kind held in the store; *)
(* the model takes the least natural that is not in `used`.                  *)
generateId(used) == CHOOSE n \in 1 .. (Cardinality(used) + 1) :
                      /\ n \notin used
                      /\ \A m \in 1 .. (n - 1) : m \in used

WaypointIds == {route.waypoints[i].id : i \in DOMAIN route.waypoints}
SegmentIds == {route.segments[i].id : i \in DOMAIN route.segments}
UsedWaypointIds == WaypointIds \cup {selectedWaypointId}
UsedSegmentIds == SegmentIds \cup {selectedSegmentId}

(* mutant: the reset that forgets the playback flags *)
ResetAnimationKeepsFlags(a) == [a EXCEPT !.currentProgress = 0, !.currentSegmentIndex = 0,
                                        !.segmentProgress = 0]

(* { ...animation, isPlaying: false, isPaused: false, currentProgress: 0, ... } *)
ResetAnimation(a) == [a EXCEPT !.isPlaying = FALSE, !.isPaused = FALSE,
                               !.currentProgress = 0, !.currentSegmentIndex = 0,
                               !.segmentProgress = 0]

(* no timer armed *)
NoTimer == 0 - 1

(* ExportPanel before any export: no recorder, no timer, flags down *)
NoCapture == [pc |-> "idle", recorder |-> "none", stopEvent |-> FALSE,
              interval |-> FALSE, graceAt |-> NoTimer, safety |-> FALSE,
              clock |-> 0, progress |-> 0, frames |-> 0,
              isExporting |-> FALSE, uiIsExporting |-> FALSE,
              exportProgress |-> 0]

(* the null of getAnimationFrame, in the shape of a frame *)
NullFrame == [null |-> TRUE,
              markerPosition |-> [line |-> <<>>, fraction |-> 0],
              currentSegmentIndex |-> 0,
              drawnPath |-> [completed |-> <<>>, partial |-> [line |-> <<>>, fraction |-> 0]],
              progress |-> 0]

(* WaypointPanel before any lookup: no request pending, isLoadingRoute false *)
NoRouting == [queue |-> <<>>, isLoadingRoute |-> FALSE]

(* no route file written yet: json holds the text of the file last saved,   *)
(* `of` the route it was made from                                          *)
NoDocument == [json |-> <<>>, of |-> Null]

Init ==
  /\ route = Null
  /\ selectedWaypointId = NoId
  /\ selectedSegmentId = NoId
  /\ animation = InitialAnimation
  /\ now = 0
  /\ lastOp = [op |-> "init", from |-> "Stopped"]
  /\ capture = NoCapture
  /\ frame = NullFrame
  /\ routing = NoRouting
  /\ savedRoute = NoDocument

AdvanceClock ==
  /\ now < MaxClock
  /\ now' = now + 1
  /\ lastOp' = Op("clock")
  /\ UNCHANGED <<frame, routing, savedRoute>>
  /\ UNCHANGED capture
  /\ UNCHANGED <<route, selectedWaypointId, selectedSegmentId, animation>>

createRoute(name) ==
  /\ route' = [id |-> generateId({}), name |-> name, waypoints |-> <<>>,
               segments |-> <<>>, createdAt |-> now, updatedAt |-> now]
  /\ lastOp' = Op("createRoute")
  /\ UNCHANGED <<frame, routing, savedRoute>>
  /\ UNCHANGED capture
  /\ UNCHANGED <<selectedWaypointId, selectedSegmentId, animation, now>>

addWaypoint(coordinates, label) ==
  /\ lastOp' = Op("addWaypoint")
  /\ UNCHANGED <<frame, routing, savedRoute>>
  /\ UNCHANGED capture
  /\ UNCHANGED <<selectedWaypointId, selectedSegmentId, now>>
  /\ IF route = Null
     THEN UNCHANGED <<route, animation>>
     ELSE LET n == Len(route.waypoints)
              wpId == generateId(UsedWaypointIds)
              newWaypoint == [id |-> wpId, coordinates |-> coordinates,
                              label |-> label, order |-> n]
              updatedWaypoints == Append(route.waypoints, newWaypoint)
              updatedSegments ==
                IF n > 0
                THEN LET previousWaypoint == route.waypoints[n]
                         newSegment ==
                           [id |-> generateId(UsedSegmentIds),
                            startWaypointId |-> previousWaypoint.id,
                            endWaypointId |-> wpId,
                            transportMode |-> "car",
                            path |-> <<previousWaypoint.coordinates, coordinates>>]
                     IN  Append(route.segments, newSegment)
                ELSE route.segments
          IN  /\ route' = [route EXCEPT !.waypoints = updatedWaypoints,
                                        !.segments = updatedSegments,
                                        !.updatedAt = now]
              /\ animation' = ResetAnimation(animation)

(* { ...wp, ...updates } *)
Merge(wp, updates) ==
  [f \in DOMAIN wp |-> IF f \in DOMAIN updates THEN updates[f] ELSE wp[f]]

updateWaypoint(id, updates) ==
  /\ lastOp' = Op("updateWaypoint")
  /\ UNCHANGED <<frame, routing, savedRoute>>
  /\ UNCHANGED capture
  /\ UNCHANGED <<selectedWaypointId, selectedSegmentId, animation, now>>
  /\ IF route = Null
     THEN UNCHANGED route
     ELSE route' = [route EXCEPT
                      !.waypoints = [i \in DOMAIN route.waypoints |->
                                       IF route.waypoints[i].id = id
                                       THEN Merge(route.waypoints[i], updates)
                                       ELSE route.waypoints[i]],
                      !.updatedAt = now]

(* Array.prototype.find / findIndex: the first of the indexes whose element *)
(* satisfies the test, 0 if there is none                                  *)
FindIndex(matching) ==
  IF matching = {} THEN 0 ELSE CHOOSE i \in matching : \A j \in matching : i <= j

(* .filter((wp) => wp.id !== id) *)
RECURSIVE WithoutId(_, _)
WithoutId(wps, id) ==
  IF wps = <<>> THEN <<>>
  ELSE IF Head(wps).id # id THEN <<Head(wps)>> \o WithoutId(Tail(wps), id)
  ELSE WithoutId(Tail(wps), id)

(* mutant: the waypoints keep the order fields they had *)
ReindexKeepsOrder(wps) == wps

(* .map((wp, index) => ({ ...wp, order: index })) *)
Reindex(wps) == [i \in DOMAIN wps |-> [wps[i] EXCEPT !.order = i - 1]]

(* mutant: the segments that touch no removed waypoint are kept, none is built *)
RemoveKeepSurvivors(updatedWaypoints, oldSegments, i, acc, used) ==
  LET ids == {updatedWaypoints[k].id : k \in DOMAIN updatedWaypoints}
      Survives(seg) == seg.startWaypointId \in ids /\ seg.endWaypointId \in ids
  IN  SelectSeq(oldSegments, Survives)

(* mutant: every pair gets a new segment, none is reused *)
RECURSIVE RemoveRebuildAnew(_, _, _, _, _)
RemoveRebuildAnew(updatedWaypoints, oldSegments, i, acc, used) ==
  IF i > Len(updatedWaypoints) - 1 THEN acc
  ELSE LET startWp == updatedWaypoints[i]
           endWp == updatedWaypoints[i + 1]
           newId == generateId(used)
       IN  RemoveRebuildAnew(updatedWaypoints, oldSegments, i + 1,
                             Append(acc, [id |-> newId,
                                          startWaypointId |-> startWp.id,
                                          endWaypointId |-> endWp.id,
                                          transportMode |-> "car",
                                          path |-> <<startWp.coordinates, endWp.coordinates>>]),
                             used \cup {newId})

(* the loop of removeWaypoint, from pair i on; acc is updatedSegments so far *)
RECURSIVE RemoveRebuild(_, _, _, _, _)
RemoveRebuild(updatedWaypoints, oldSegments, i, acc, used) ==
  IF i > Len(updatedWaypoints) - 1 THEN acc
  ELSE LET startWp == updatedWaypoints[i]
           endWp == updatedWaypoints[i + 1]
           IsPair(seg) == seg.startWaypointId = startWp.id /\ seg.endWaypointId = endWp.id
           EndsAtStart(seg) == seg.endWaypointId = startWp.id
           StartsAtEnd(seg) == seg.startWaypointId = endWp.id
           existing == FindIndex({k \in DOMAIN oldSegments : IsPair(oldSegments[k])})
           prev == FindIndex({k \in DOMAIN oldSegments : EndsAtStart(oldSegments[k])})
           next == FindIndex({k \in DOMAIN oldSegments : StartsAtEnd(oldSegments[k])})
           inheritedMode == IF prev # 0 THEN oldSegments[prev].transportMode
                            ELSE IF next # 0 THEN oldSegments[next].transportMode
                            ELSE "car"
           newId == generateId(used)
       IN  IF existing # 0
           THEN RemoveRebuild(updatedWaypoints, oldSegments, i + 1,
                              Append(acc, oldSegments[existing]), used)
           ELSE RemoveRebuild(updatedWaypoints, oldSegments, i + 1,
                              Append(acc, [id |-> newId,
                                           startWaypointId |-> startWp.id,
                                           endWaypointId |-> endWp.id,
                                           transportMode |-> inheritedMode,
                                           path |-> <<startWp.coordinates, endWp.coordinates>>]),
                              used \cup {newId})

removeWaypoint(id) ==
  /\ lastOp' = Op("removeWaypoint")
  /\ UNCHANGED <<frame, routing, savedRoute>>
  /\ UNCHANGED capture
  /\ UNCHANGED now
  /\ LET waypointIndex == FindIndex({k \in DOMAIN route.waypoints : route.waypoints[k].id = id})
     IN  IF route = Null \/ waypointIndex = 0
         THEN UNCHANGED <<route, selectedWaypointId, selectedSegmentId, animation>>
         ELSE LET updatedWaypoints == Reindex(WithoutId(route.waypoints, id))
                  updatedSegments == RemoveRebuild(updatedWaypoints, route.segments, 1,
                                                   <<>>, UsedSegmentIds)
              IN  /\ route' = [route EXCEPT !.waypoints = updatedWaypoints,
                                            !.segments = updatedSegments,
                                            !.updatedAt = now]
                  /\ selectedWaypointId' = IF selectedWaypointId = id THEN NoId
                                           ELSE selectedWaypointId
                  /\ animation' = ResetAnimation(animation)
                  /\ UNCHANGED selectedSegmentId

(* Array.prototype.splice: the start argument as an offset into an array of length len *)
SpliceStart(len, start) == IF start < 0 THEN Max(len + start, 0) ELSE Min(start, len)

(* { ...undefined, order: index }: a waypoint without id, coordinates or label *)
UndefinedWaypoint == [id |-> NoId, coordinates |-> UndefCoord, label |-> UndefLabel, order |-> 0]

(* waypoints.splice(fromIndex, 1) then waypoints.splice(toIndex, 0, removed) *)
MoveWaypoint(wps, fromIndex, toIndex) ==
  LET s == SpliceStart(Len(wps), fromIndex)
      removed == IF s < Len(wps) THEN wps[s + 1] ELSE UndefinedWaypoint
      rest == IF s < Len(wps) THEN SubSeq(wps, 1, s) \o SubSeq(wps, s + 2, Len(wps)) ELSE wps
      t == SpliceStart(Len(rest), toIndex)
  IN  SubSeq(rest, 1, t) \o <<removed>> \o SubSeq(rest, t + 1, Len(rest))

(* mutant: an existing segment is reused as found, its direction not rewritten *)
ReorderReuseAsFound(updatedWaypoints, oldSegments, i, acc, used) ==
  [k \in 1 .. (Len(updatedWaypoints) - 1) |->
     LET startWp == updatedWaypoints[k]
         endWp == updatedWaypoints[k + 1]
         Connects(seg) ==
           \/ seg.startWaypointId = startWp.id /\ seg.endWaypointId = endWp.id
           \/ seg.startWaypointId = endWp.id /\ seg.endWaypointId = startWp.id
         existing == FindIndex({n \in DOMAIN oldSegments : Connects(oldSegments[n])})
     IN  IF existing # 0 THEN oldSegments[existing]
         ELSE [id |-> generateId(used) + k,
               startWaypointId |-> startWp.id,
               endWaypointId |-> endWp.id,
               transportMode |-> "car",
               path |-> <<startWp.coordinates, endWp.coordinates>>]]

(* mutant: an existing segment is found only in the direction of the pair *)
RECURSIVE ReorderMatchesForward(_, _, _, _, _)
ReorderMatchesForward(updatedWaypoints, oldSegments, i, acc, used) ==
  IF i > Len(updatedWaypoints) - 1 THEN acc
  ELSE LET startWp == updatedWaypoints[i]
           endWp == updatedWaypoints[i + 1]
           Connects(seg) ==
             seg.startWaypointId = startWp.id /\ seg.endWaypointId = endWp.id
           existing == FindIndex({k \in DOMAIN oldSegments : Connects(oldSegments[k])})
           newId == generateId(used)
       IN  IF existing # 0
           THEN ReorderMatchesForward(updatedWaypoints, oldSegments, i + 1,
                                      Append(acc, [oldSegments[existing] EXCEPT
                                                     !.startWaypointId = startWp.id,
                                                     !.endWaypointId = endWp.id]),
                                      used)
           ELSE ReorderMatchesForward(updatedWaypoints, oldSegments, i + 1,
                                      Append(acc, [id |-> newId,
                                                   startWaypointId |-> startWp.id,
                                                   endWaypointId |-> endWp.id,
                                                   transportMode |-> "car",
                                                   path |-> <<startWp.coordinates,
                                                              endWp.coordinates>>]),
                                      used \cup {newId})

(* the loop of reorderWaypoints, from pair i on *)
RECURSIVE ReorderRebuild(_, _, _, _, _)
ReorderRebuild(updatedWaypoints, oldSegments, i, acc, used) ==
  IF i > Len(updatedWaypoints) - 1 THEN acc
  ELSE LET startWp == updatedWaypoints[i]
           endWp == updatedWaypoints[i + 1]
           Connects(seg) ==
             \/ seg.startWaypointId = startWp.id /\ seg.endWaypointId = endWp.id
             \/ seg.startWaypointId = endWp.id /\ seg.endWaypointId = startWp.id
           existing == FindIndex({k \in DOMAIN oldSegments : Connects(oldSegments[k])})
           newId == generateId(used)
       IN  IF existing # 0
           THEN ReorderRebuild(updatedWaypoints, oldSegments, i + 1,
                               Append(acc, [id |-> oldSegments[existing].id,
                                            startWaypointId |-> startWp.id,
                                            endWaypointId |-> endWp.id,
                                            transportMode |-> oldSegments[existing].transportMode,
                                            path |-> oldSegments[existing].path]),
                               used)
           ELSE ReorderRebuild(updatedWaypoints, oldSegments, i + 1,
                               Append(acc, [id |-> newId,
                                            startWaypointId |-> startWp.id,
                                            endWaypointId |-> endWp.id,
                                            transportMode |-> "car",
                                            path |-> <<startWp.coordinates, endWp.coordinates>>]),
                               used \cup {newId})

reorderWaypoints(fromIndex, toIndex) ==
  /\ lastOp' = Op("reorderWaypoints")
  /\ UNCHANGED <<frame, routing, savedRoute>>
  /\ UNCHANGED capture
  /\ UNCHANGED <<selectedWaypointId, selectedSegmentId, now>>
  /\ IF route = Null
     THEN UNCHANGED <<route, animation>>
     ELSE LET updatedWaypoints == Reindex(MoveWaypoint(route.waypoints, fromIndex, toIndex))
              updatedSegments == ReorderRebuild(updatedWaypoints, route.segments, 1,
                                                <<>>, UsedSegmentIds)
          IN  /\ route' = [route EXCEPT !.waypoints = updatedWaypoints,
                                        !.segments = updatedSegments,
                                        !.updatedAt = now]
              /\ animation' = ResetAnimation(animation)

(* mutant: a mode change treated as a change of the route's structure *)
updateSegmentTransportResets(segmentId, mode) ==
  /\ lastOp' = Op("updateSegmentTransport")
  /\ UNCHANGED <<frame, routing, savedRoute>>
  /\ UNCHANGED capture
  /\ UNCHANGED <<selectedWaypointId, selectedSegmentId, now>>
  /\ IF route = Null
     THEN UNCHANGED <<route, animation>>
     ELSE /\ route' = [route EXCEPT
                         !.segments = [i \in DOMAIN route.segments |->
                                         IF route.segments[i].id = segmentId
                                         THEN [route.segments[i] EXCEPT !.transportMode = mode]
                                         ELSE route.segments[i]],
                         !.updatedAt = now]
          /\ animation' = ResetAnimation(animation)

updateSegmentTransport(segmentId, mode) ==
  /\ lastOp' = Op("updateSegmentTransport")
  /\ UNCHANGED <<frame, routing, savedRoute>>
  /\ UNCHANGED capture
  /\ UNCHANGED <<selectedWaypointId, selectedSegmentId, animation, now>>
  /\ IF route = Null
     THEN UNCHANGED route
     ELSE route' = [route EXCEPT
                      !.segments = [i \in DOMAIN route.segments |->
                                      IF route.segments[i].id = segmentId
                                      THEN [route.segments[i] EXCEPT !.transportMode = mode]
                                      ELSE route.segments[i]],
                      !.updatedAt = now]

(* the store update of updateSegmentPath *)
SegmentPathSet(segmentId, path) ==
  /\ UNCHANGED capture
  /\ UNCHANGED <<selectedWaypointId, selectedSegmentId, animation, now>>
  /\ IF route = Null
     THEN UNCHANGED route
     ELSE route' = [route EXCEPT
                      !.segments = [i \in DOMAIN route.segments |->
                                      IF route.segments[i].id = segmentId
                                      THEN [route.segments[i] EXCEPT !.path = path]
                                      ELSE route.segments[i]],
                      !.updatedAt = now]

updateSegmentPath(segmentId, path) ==
  /\ lastOp' = Op("updateSegmentPath")
  /\ UNCHANGED <<frame, routing, savedRoute>>
  /\ SegmentPathSet(segmentId, path)

(* ------------------- useRouting: the route lookup ----------------------- *)
(* floor of the square root *)
Isqrt(x) == CHOOSE r \in 0 .. x : r * r <= x /\ (r + 1) * (r + 1) > x

(* Math.sin(Math.PI * i / n) in thousandths, rounded down (Bhaskara's       *)
(* rational form of the sine, within 0.002 of it)                           *)
SinPi(i, n) == (16000 * i * (n - i)) \div (5 * n * n - 4 * i * (n - i))

(* Math.sqrt(dx^2 + dy^2), rounded down *)
Distance(start, end) ==
  Isqrt((end[1] - start[1]) * (end[1] - start[1])
        + (end[2] - start[2]) * (end[2] - start[2]))

(* the point pushed by iteration i of generateArcPath: the interpolation    *)
(* at t = i / numPoints, its latitude raised by distance * 0.1 * sin(PI t)  *)
ArcPoint(start, end, numPoints, distance, i) ==
  LET lng == start[1] + ((end[1] - start[1]) * i) \div numPoints
      lat == start[2] + ((end[2] - start[2]) * i) \div numPoints
      arc == (distance * SinPi(i, numPoints)) \div 10000
  IN  <<lng, lat + arc>>

(* mutant: the loop that starts at i = 1 *)
generateArcPathFromOne(start, end, numPoints) ==
  LET distance == Distance(start, end)
  IN  [k \in 1 .. numPoints |-> ArcPoint(start, end, numPoints, distance, k)]

(* for (let i = 0; i <= numPoints; i++) points.push(...) *)
generateArcPath(start, end, numPoints) ==
  LET distance == Distance(start, end)
  IN  [k \in 1 .. (numPoints + 1) |-> ArcPoint(start, end, numPoints, distance, k - 1)]

(* what the directions service does with a request: fetch rejects, the      *)
(* response is not OK, its body is not the expected JSON, it holds no       *)
(* route, it holds a route                                                  *)
RoutingResponses ==
  {[status |-> st, routes |-> <<>>] :
     st \in {"networkError", "notOk", "badBody", "noRoutes"}}
  \cup {[status |-> "routes", routes |-> <<p>>] : p \in PathInputs}

(* reading start[0] or end[0] of an undefined coordinate throws outside the *)
(* try of fetchRoute                                                        *)
FetchRejects(start, end) == start = UndefCoord \/ end = UndefCoord

(* mutant: a lookup that gives up with an empty path when the service fails *)
fetchRouteGivesUp(start, end, mode, response) ==
  IF mode = "plane" THEN generateArcPath(start, end, ArcNumPoints)
  ELSE IF response.status = "routes" /\ Len(response.routes) > 0
  THEN response.routes[1]
  ELSE <<>>

(* the path fetchRoute resolves to *)
fetchRoute(start, end, mode, response) ==
  IF mode = "plane" THEN generateArcPath(start, end, ArcNumPoints)
  ELSE IF response.status = "routes" /\ Len(response.routes) > 0
  THEN response.routes[1]
  ELSE <<start, end>>

(* route.waypoints.find(wp => wp.id === id): its index, 0 for undefined *)
FindWaypoint(r, id) == FindIndex({k \in DOMAIN r.waypoints : r.waypoints[k].id = id})

(* the lookups handleFetchRoutes will make, in order, for the route of the  *)
(* render it was created in: one per segment whose two waypoints are found  *)
RECURSIVE LookupRequests(_, _)
LookupRequests(r, i) ==
  IF i > Len(r.segments) THEN <<>>
  ELSE LET segment == r.segments[i]
           startWp == FindWaypoint(r, segment.startWaypointId)
           endWp == FindWaypoint(r, segment.endWaypointId)
       IN  (IF startWp # 0 /\ endWp # 0
            THEN <<[segmentId |-> segment.id,
                    start |-> r.waypoints[startWp].coordinates,
                    end |-> r.waypoints[endWp].coordinates,
                    mode |-> segment.transportMode]>>
            ELSE <<>>)
           \o LookupRequests(r, i + 1)

(* handleFetchRoutes, up to its first await *)
handleFetchRoutes ==
  /\ lastOp' = Op("handleFetchRoutes")
  /\ UNCHANGED <<route, selectedWaypointId, selectedSegmentId, animation, now>>
  /\ UNCHANGED <<capture, frame, savedRoute>>
  /\ IF route = Null \/ Len(route.segments) = 0
     THEN UNCHANGED routing
     ELSE LET requests == LookupRequests(route, 1)
          IN  routing' = [queue |-> requests, isLoadingRoute |-> requests # <<>>]

(* handleFetchRoutes, from the settling of one await to the next await or   *)
(* to its end: updateSegmentPath(segment.id, path), or the catch            *)
fetchRouteSettled(response) ==
  /\ routing.queue # <<>>
  /\ lastOp' = Op("fetchRouteSettled")
  /\ UNCHANGED <<frame, savedRoute>>
  /\ LET request == Head(routing.queue)
     IN  IF FetchRejects(request.start, request.end)
         THEN /\ routing' = NoRouting
              /\ UNCHANGED <<route, selectedWaypointId, selectedSegmentId, animation,
                             now, capture>>
         ELSE /\ routing' = [queue |-> Tail(routing.queue),
                             isLoadingRoute |-> Tail(routing.queue) # <<>>]
              /\ SegmentPathSet(request.segmentId,
                                fetchRoute(request.start, request.end, request.mode,
                                           response))

(* handleTransportChange with the route of the current render. A change to   *)
(* 'plane' awaits fetchRoute, which for a plane resolves without a request,  *)
(* so the path is written before any other event is handled; a change from   *)
(* 'plane' writes the straight line; loadingSegmentId only disables buttons. *)
handleTransportChange(segmentId, mode) ==
  /\ lastOp' = Op("handleTransportChange")
  /\ UNCHANGED <<frame, routing, savedRoute>>
  /\ UNCHANGED capture
  /\ UNCHANGED <<selectedWaypointId, selectedSegmentId, animation, now>>
  /\ IF route = Null
     THEN UNCHANGED route
     ELSE LET found == FindIndex({k \in DOMAIN route.segments :
                                   route.segments[k].id = segmentId})
          IN  IF found = 0
              THEN route' = [route EXCEPT !.updatedAt = now]
              ELSE LET segment == route.segments[found]
                       previousMode == segment.transportMode
                       changingToPlane == mode = "plane" /\ previousMode # "plane"
                       changingFromPlane == mode # "plane" /\ previousMode = "plane"
                       startWp == FindWaypoint(route, segment.startWaypointId)
                       endWp == FindWaypoint(route, segment.endWaypointId)
                       start == route.waypoints[startWp].coordinates
                       end == route.waypoints[endWp].coordinates
                       path == IF startWp = 0 \/ endWp = 0 THEN segment.path
                               ELSE IF changingToPlane
                               THEN (IF FetchRejects(start, end) THEN segment.path
                                     ELSE fetchRoute(start, end, mode,
                                                     [status |-> "noRoutes", routes |-> <<>>]))
                               ELSE IF changingFromPlane THEN <<start, end>>
                               ELSE segment.path
                   IN  route' = [route EXCEPT
                                   !.segments[found] = [segment EXCEPT
                                                          !.transportMode = mode,
                                                          !.path = path],
                                   !.updatedAt = now]

selectWaypoint(id) ==
  /\ selectedWaypointId' = id
  /\ selectedSegmentId' = NoId
  /\ lastOp' = Op("selectWaypoint")
  /\ UNCHANGED <<frame, routing, savedRoute>>
  /\ UNCHANGED capture
  /\ UNCHANGED <<route, animation, now>>

selectSegment(id) ==
  /\ selectedSegmentId' = id
  /\ selectedWaypointId' = NoId
  /\ lastOp' = Op("selectSegment")
  /\ UNCHANGED <<frame, routing, savedRoute>>
  /\ UNCHANGED capture
  /\ UNCHANGED <<route, animation, now>>

playAnimation ==
  /\ animation' = [animation EXCEPT !.isPlaying = TRUE, !.isPaused = FALSE]
  /\ lastOp' = Op("playAnimation")
  /\ UNCHANGED <<frame, routing, savedRoute>>
  /\ UNCHANGED capture
  /\ UNCHANGED <<route, selectedWaypointId, selectedSegmentId, now>>

(* mutant: pausing raises isPaused and leaves isPlaying as it is *)
pauseAnimationKeepsPlaying ==
  /\ animation' = [animation EXCEPT !.isPaused = TRUE]
  /\ lastOp' = Op("pauseAnimation")
  /\ UNCHANGED <<frame, routing, savedRoute>>
  /\ UNCHANGED capture
  /\ UNCHANGED <<route, selectedWaypointId, selectedSegmentId, now>>

(* mutant: pausing rewinds the playback *)
pauseAnimationRewinds ==
  /\ animation' = [ResetAnimation(animation) EXCEPT !.isPaused = TRUE]
  /\ lastOp' = Op("pauseAnimation")
  /\ UNCHANGED <<frame, routing, savedRoute>>
  /\ UNCHANGED capture
  /\ UNCHANGED <<route, selectedWaypointId, selectedSegmentId, now>>

pauseAnimation ==
  /\ animation' = [animation EXCEPT !.isPlaying = FALSE, !.isPaused = TRUE]
  /\ lastOp' = Op("pauseAnimation")
  /\ UNCHANGED <<frame, routing, savedRoute>>
  /\ UNCHANGED capture
  /\ UNCHANGED <<route, selectedWaypointId, selectedSegmentId, now>>

(* mutant: stop clears the flags and leaves the progress where it was *)
stopAnimationKeepsProgress ==
  /\ animation' = [animation EXCEPT !.isPlaying = FALSE, !.isPaused = FALSE]
  /\ lastOp' = Op("stopAnimation")
  /\ UNCHANGED <<frame, routing, savedRoute>>
  /\ UNCHANGED capture
  /\ UNCHANGED <<route, selectedWaypointId, selectedSegmentId, now>>

stopAnimation ==
  /\ animation' = [isPlaying |-> FALSE, isPaused |-> FALSE, currentProgress |-> 0,
                   currentSegmentIndex |-> 0, segmentProgress |-> 0,
                   speed |-> animation.speed]
  /\ lastOp' = Op("stopAnimation")
  /\ UNCHANGED <<frame, routing, savedRoute>>
  /\ UNCHANGED capture
  /\ UNCHANGED <<route, selectedWaypointId, selectedSegmentId, now>>

(* mutant: the segment index is not clamped to the last segment *)
ProgressAnimationNoClamp(a, segmentCount, progress) ==
  [a EXCEPT !.currentProgress = progress,
            !.currentSegmentIndex = (progress * segmentCount) \div PScale,
            !.segmentProgress = (progress * segmentCount) % PScale]

(* the animation written by setAnimationProgress(progress) on a route with segments *)
ProgressAnimation(a, segmentCount, progress) ==
  LET segmentIndex == Min((progress * segmentCount) \div PScale, segmentCount - 1)
      segmentProgress == (progress * segmentCount) % PScale
  IN  [a EXCEPT !.currentProgress = progress,
                !.currentSegmentIndex = segmentIndex,
                !.segmentProgress = segmentProgress]

setAnimationProgress(progress) ==
  /\ lastOp' = Op("setAnimationProgress")
  /\ UNCHANGED <<frame, routing, savedRoute>>
  /\ UNCHANGED capture
  /\ UNCHANGED <<route, selectedWaypointId, selectedSegmentId, now>>
  /\ IF route = Null \/ Len(route.segments) = 0
     THEN UNCHANGED animation
     ELSE animation' = ProgressAnimation(animation, Len(route.segments), progress)

setAnimationSpeed(speed) ==
  /\ animation' = [animation EXCEPT !.speed = speed]
  /\ lastOp' = Op("setAnimationSpeed")
  /\ UNCHANGED <<frame, routing, savedRoute>>
  /\ UNCHANGED capture
  /\ UNCHANGED <<route, selectedWaypointId, selectedSegmentId, now>>

(* mutant: a zero deltaTime is taken for one step of progress *)
ProgressIncrementMinStep(deltaTime, speed) ==
  Max(1, (deltaTime * RatePercent * speed * PScale) \div (MsPerSecond * 100))

(* (deltaTime / 1000) * 0.05 * animation.speed, in units of 1/PScale *)
ProgressIncrement(deltaTime, speed) ==
  (deltaTime * RatePercent * speed * PScale) \div (MsPerSecond * 100)

(* mutant: completion tested with > instead of >=, and no clamp *)
FrameAnimationNoClamp(a, segmentCount, deltaTime) ==
  LET newProgress == a.currentProgress + ProgressIncrement(deltaTime, a.speed)
  IN  IF newProgress > PScale
      THEN ResetAnimation(a)
      ELSE ProgressAnimation(a, segmentCount, newProgress)

(* mutant: completion freezes the playback at progress 1, still playing *)
FrameAnimationFreezes(a, segmentCount, deltaTime) ==
  ProgressAnimation(a, segmentCount,
                    Min(a.currentProgress + ProgressIncrement(deltaTime, a.speed), PScale))

(* the animation written by updateAnimationFrame while playing on segmentCount segments *)
FrameAnimation(a, segmentCount, deltaTime) ==
  LET newProgress == Min(a.currentProgress + ProgressIncrement(deltaTime, a.speed), PScale)
  IN  IF newProgress >= PScale
      THEN ResetAnimation(a)
      ELSE ProgressAnimation(a, segmentCount, newProgress)

(* mutant: the tick returns early only when neither flag is set *)
updateAnimationFrameWhilePaused(deltaTime) ==
  /\ lastOp' = Op("updateAnimationFrame")
  /\ UNCHANGED <<frame, routing, savedRoute>>
  /\ UNCHANGED capture
  /\ UNCHANGED <<route, selectedWaypointId, selectedSegmentId, now>>
  /\ IF route = Null \/ (~animation.isPlaying /\ ~animation.isPaused)
        \/ Len(route.segments) = 0
     THEN UNCHANGED animation
     ELSE animation' = FrameAnimation(animation, Len(route.segments), deltaTime)

updateAnimationFrame(deltaTime) ==
  /\ lastOp' = Op("updateAnimationFrame")
  /\ UNCHANGED <<frame, routing, savedRoute>>
  /\ UNCHANGED capture
  /\ UNCHANGED <<route, selectedWaypointId, selectedSegmentId, now>>
  /\ IF route = Null \/ ~animation.isPlaying \/ Len(route.segments) = 0
     THEN UNCHANGED animation
     ELSE animation' = FrameAnimation(animation, Len(route.segments), deltaTime)

(* the animation that updateAnimationFrame(deltaTime) leaves when it finds a *)
(* in the store, on the current route                                       *)
Ticked(a, deltaTime) ==
  IF route = Null \/ ~a.isPlaying \/ Len(route.segments) = 0
  THEN a
  ELSE FrameAnimation(a, Len(route.segments), deltaTime)

clearRoute ==
  /\ route' = Null
  /\ selectedWaypointId' = NoId
  /\ selectedSegmentId' = NoId
  /\ animation' = InitialAnimation
  /\ lastOp' = Op("clearRoute")
  /\ UNCHANGED <<frame, routing, savedRoute>>
  /\ UNCHANGED capture
  /\ UNCHANGED now

(* ------------------- SettingsPanel: save and load ----------------------- *)
(* JSON.stringify of an object property: the key is left out when the value *)
(* is undefined; the model keeps the property as a sequence of at most one  *)
JsonProperty(value, undefined) == IF value = undefined THEN <<>> ELSE <<value>>
(* reading the property of the parsed object: undefined when the key is absent *)
ParsedProperty(property, undefined) ==
  IF property = <<>> THEN undefined ELSE property[1]

(* null, which JSON.stringify writes for an undefined array element: a      *)
(* tuple of length one, equal to no coordinate pair and not to UndefCoord   *)
NullCoord == <<0>>
(* JSON.stringify of a path: an undefined element becomes null *)
JsonPath(path) == [k \in DOMAIN path |-> IF path[k] = UndefCoord THEN <<>> ELSE <<path[k]>>]
ParsedPath(path) == [k \in DOMAIN path |-> IF path[k] = <<>> THEN NullCoord ELSE path[k][1]]

(* Date.prototype.toJSON: the ISO string of the instant; new Date(string)   *)
JsonDate(date) == [iso |-> date]
ParsedDate(string) == string.iso

(* mutant: a writer that leaves the labels out *)
JsonWaypointNoLabel(wp) ==
  [id |-> JsonProperty(wp.id, NoId),
   coordinates |-> JsonProperty(wp.coordinates, UndefCoord),
   label |-> <<>>,
   order |-> wp.order]

JsonWaypoint(wp) ==
  [id |-> JsonProperty(wp.id, NoId),
   coordinates |-> JsonProperty(wp.coordinates, UndefCoord),
   label |-> JsonProperty(wp.label, UndefLabel),
   order |-> wp.order]

ParsedWaypoint(wp) ==
  [id |-> ParsedProperty(wp.id, NoId),
   coordinates |-> ParsedProperty(wp.coordinates, UndefCoord),
   label |-> ParsedProperty(wp.label, UndefLabel),
   order |-> wp.order]

JsonSegment(seg) ==
  [id |-> seg.id,
   startWaypointId |-> JsonProperty(seg.startWaypointId, NoId),
   endWaypointId |-> JsonProperty(seg.endWaypointId, NoId),
   transportMode |-> seg.transportMode,
   path |-> JsonPath(seg.path)]

ParsedSegment(seg) ==
  [id |-> seg.id,
   startWaypointId |-> ParsedProperty(seg.startWaypointId, NoId),
   endWaypointId |-> ParsedProperty(seg.endWaypointId, NoId),
   transportMode |-> seg.transportMode,
   path |-> ParsedPath(seg.path)]

(* JSON.stringify(route) *)
JsonStringify(r) ==
  [id |-> r.id, name |-> r.name,
   waypoints |-> [k \in DOMAIN r.waypoints |-> JsonWaypoint(r.waypoints[k])],
   segments |-> [k \in DOMAIN r.segments |-> JsonSegment(r.segments[k])],
   createdAt |-> JsonDate(r.createdAt),
   updatedAt |-> JsonDate(r.updatedAt)]

(* JSON.parse(text): dates stay strings *)
JsonParse(text) ==
  [id |-> text.id, name |-> text.name,
   waypoints |-> [k \in DOMAIN text.waypoints |-> ParsedWaypoint(text.waypoints[k])],
   segments |-> [k \in DOMAIN text.segments |-> ParsedSegment(text.segments[k])],
   createdAt |-> text.createdAt,
   updatedAt |-> text.updatedAt]

(* handleSaveRoute: the file offered for download *)
handleSaveRoute ==
  /\ lastOp' = Op("handleSaveRoute")
  /\ UNCHANGED <<route, selectedWaypointId, selectedSegmentId, animation, now>>
  /\ UNCHANGED <<capture, frame, routing>>
  /\ IF route = Null
     THEN UNCHANGED savedRoute
     ELSE savedRoute' = [json |-> <<JsonStringify(route)>>, of |-> route]

(* the files the user can pick: the one saved last, a JSON file without      *)
(* waypoints or segments, a file that is not JSON                           *)
FileInputs == {"saved", "other", "garbage"}

(* handleLoadRoute with the file picked, through loadRoute *)
handleLoadRoute(file) ==
  /\ file = "saved" => savedRoute.json # <<>>
  /\ lastOp' = Op("handleLoadRoute")
  /\ UNCHANGED <<now, capture, frame, routing, savedRoute>>
  /\ IF file # "saved"
     THEN UNCHANGED <<route, selectedWaypointId, selectedSegmentId, animation>>
     ELSE LET routeData == JsonParse(savedRoute.json[1])
          IN  /\ route' = [id |-> routeData.id, name |-> routeData.name,
                           waypoints |-> routeData.waypoints,
                           segments |-> routeData.segments,
                           createdAt |-> ParsedDate(routeData.createdAt),
                           updatedAt |-> now]
              /\ selectedWaypointId' = NoId
              /\ selectedSegmentId' = NoId
              /\ animation' = InitialAnimation

(* ------------------- useAnimation: the frame sampler ------------------- *)
(* turf.bezierSpline: a curve resampled through the vertices; the model     *)
(* keeps the vertices and puts the midpoint of every leg between them       *)
RECURSIVE bezierSpline(_)
bezierSpline(coordinates) ==
  IF Len(coordinates) < 2 THEN coordinates
  ELSE LET a == coordinates[1]
           b == coordinates[2]
       IN  <<a, <<(a[1] + b[1]) \div 2, (a[2] + b[2]) \div 2>>>>
             \o bezierSpline(Tail(coordinates))

smoothPath(coordinates, transportMode) ==
  IF transportMode = "plane" \/ Len(coordinates) <= 2
  THEN coordinates
  ELSE bezierSpline(coordinates)

(* turf.along(line, totalLength * segmentProgress): the point of the line   *)
(* at that fraction of its length, kept as the pair (line, fraction)        *)
Along(line, segmentProgress) == [line |-> line, fraction |-> segmentProgress]

(* the smoothed paths of the segments before index i, concatenated *)
RECURSIVE CompletedPath(_, _)
CompletedPath(segments, i) ==
  IF i = 0 THEN <<>>
  ELSE CompletedPath(segments, i - 1)
         \o smoothPath(segments[i].path, segments[i].transportMode)

(* mutant: a sampler that always reports the first segment *)
AnimationFrameFirstSegment(r, a) ==
  IF r = Null \/ Len(r.segments) = 0 THEN NullFrame
  ELSE IF Len(r.segments[1].path) < 2 THEN NullFrame
  ELSE LET smoothedPath == smoothPath(r.segments[1].path, r.segments[1].transportMode)
           point == Along(smoothedPath, a.segmentProgress)
       IN  [null |-> FALSE,
            markerPosition |-> point,
            currentSegmentIndex |-> 0,
            drawnPath |-> [completed |-> <<>>, partial |-> point],
            progress |-> a.currentProgress]

(* the value of getAnimationFrame() for route r and animation a *)
AnimationFrame(r, a) ==
  IF r = Null \/ Len(r.segments) = 0 THEN NullFrame
  ELSE IF (a.currentSegmentIndex + 1) \notin DOMAIN r.segments THEN NullFrame
  ELSE LET currentSegment == r.segments[a.currentSegmentIndex + 1]
       IN  IF Len(currentSegment.path) < 2 THEN NullFrame
           ELSE LET smoothedPath == smoothPath(currentSegment.path,
                                               currentSegment.transportMode)
                    point == Along(smoothedPath, a.segmentProgress)
                IN  [null |-> FALSE,
                     markerPosition |-> point,
                     currentSegmentIndex |-> a.currentSegmentIndex,
                     drawnPath |-> [completed |-> CompletedPath(r.segments,
                                                                a.currentSegmentIndex),
                                    partial |-> point],
                     progress |-> a.currentProgress]

(* MapContainer.updateAnimationVisuals: const frame = getAnimationFrame() *)
getAnimationFrame ==
  /\ frame' = AnimationFrame(route, animation)
  /\ lastOp' = Op("getAnimationFrame")
  /\ UNCHANGED <<route, selectedWaypointId, selectedSegmentId, animation, now>>
  /\ UNCHANGED <<capture, routing, savedRoute>>

(* ------------------- ExportPanel: the capture run ---------------------- *)
(* progress >= 0.99, for a progress in units of 1/PScale *)
NearOne(progress) == progress * 100 >= NearOnePercent * PScale

(* const hasRoute = route && route.segments.length > 0 *)
hasRoute == route # Null /\ Len(route.segments) > 0

(* what the setup of handleExport meets: nothing wrong, no map container or *)
(* map canvas, no 2D context, a MediaRecorder that cannot be constructed,   *)
(* a MediaRecorder whose start() throws                                     *)
SetupOutcomes == {"ok", "noCanvas", "noContext", "noEncoder", "startFails"}
SetupFailures == SetupOutcomes \ {"ok"}

(* mutant: a setup failure that nothing catches *)
SetupFailedNoCatch(c) ==
  [c EXCEPT !.isExporting = TRUE, !.uiIsExporting = TRUE, !.exportProgress = 0]

(* setIsExportingLocal(true); setExporting(true, 0); a throw inside the try; *)
(* catch: setIsExportingLocal(false); setExporting(false)                    *)
SetupFailed(c) ==
  [c EXCEPT !.isExporting = FALSE, !.uiIsExporting = FALSE, !.exportProgress = 0]

(* handleExport, from its entry to mediaRecorder.start(100); `progress` is  *)
(* the animation.currentProgress of the render that built the callback      *)
handleExport(setup) ==
  /\ capture.pc = "idle"
  /\ lastOp' = Op("handleExport")
  /\ UNCHANGED <<frame, routing, savedRoute>>
  /\ UNCHANGED <<route, selectedWaypointId, selectedSegmentId, animation, now>>
  /\ IF ~hasRoute \/ setup = "noCanvas"
     THEN UNCHANGED capture
     ELSE IF setup # "ok"
     THEN capture' = SetupFailed(capture)
     ELSE capture' = [pc |-> "started", recorder |-> "recording", stopEvent |-> FALSE,
                      interval |-> FALSE, graceAt |-> NoTimer, safety |-> FALSE,
                      clock |-> 0, progress |-> animation.currentProgress,
                      frames |-> 0,
                      isExporting |-> TRUE, uiIsExporting |-> TRUE,
                      exportProgress |-> 0]

(* handleExport, continued: stop(); // Reset animation *)
handleExportStop ==
  /\ capture.pc = "started"
  /\ animation' = [isPlaying |-> FALSE, isPaused |-> FALSE, currentProgress |-> 0,
                   currentSegmentIndex |-> 0, segmentProgress |-> 0,
                   speed |-> animation.speed]
  /\ capture' = [capture EXCEPT !.pc = "reset"]
  /\ lastOp' = Op("handleExportStop")
  /\ UNCHANGED <<frame, routing, savedRoute>>
  /\ UNCHANGED <<route, selectedWaypointId, selectedSegmentId, now>>

(* handleExport, continued to its end: play(), setInterval, setTimeout *)
handleExportPlay ==
  /\ capture.pc = "reset"
  /\ animation' = [animation EXCEPT !.isPlaying = TRUE, !.isPaused = FALSE]
  /\ capture' = [capture EXCEPT !.pc = "idle", !.interval = TRUE, !.safety = TRUE]
  /\ lastOp' = Op("handleExportPlay")
  /\ UNCHANGED <<frame, routing, savedRoute>>
  /\ UNCHANGED <<route, selectedWaypointId, selectedSegmentId, now>>

(* mutant: a capture interval that stops playback when it sees completion *)
captureIntervalStops ==
  /\ capture.interval
  /\ capture' = [capture EXCEPT
                   !.frames = @ + 1,
                   !.uiIsExporting = TRUE,
                   !.exportProgress = capture.progress,
                   !.interval = ~NearOne(capture.progress),
                   !.graceAt = IF NearOne(capture.progress)
                               THEN capture.clock + GraceMs ELSE @]
  /\ animation' = IF NearOne(capture.progress)
                  THEN [isPlaying |-> FALSE, isPaused |-> FALSE, currentProgress |-> 0,
                        currentSegmentIndex |-> 0, segmentProgress |-> 0,
                        speed |-> animation.speed]
                  ELSE animation
  /\ lastOp' = Op("captureInterval")
  /\ UNCHANGED <<frame, routing, savedRoute>>
  /\ UNCHANGED <<route, selectedWaypointId, selectedSegmentId, now>>

(* the setInterval callback: captureFrame(), which copies one frame of the   *)
(* map canvas to the export canvas, then the completion test on the         *)
(* `progress` of the closure                                                 *)
captureInterval ==
  /\ capture.interval
  /\ capture' = [capture EXCEPT
                   !.frames = @ + 1,
                   !.uiIsExporting = TRUE,
                   !.exportProgress = capture.progress,
                   !.interval = ~NearOne(capture.progress),
                   !.graceAt = IF NearOne(capture.progress)
                               THEN capture.clock + GraceMs ELSE @]
  /\ lastOp' = Op("captureInterval")
  /\ UNCHANGED <<frame, routing, savedRoute>>
  /\ UNCHANGED <<route, selectedWaypointId, selectedSegmentId, animation, now>>

(* MediaRecorder.stop(): throws on an inactive recorder, else the recorder  *)
(* becomes inactive and its stop event is queued                            *)
RecorderStopped(c) ==
  IF c.recorder = "recording"
  THEN [c EXCEPT !.recorder = "inactive", !.stopEvent = TRUE]
  ELSE c

(* setTimeout(() => { mediaRecorder.stop(); }, 500) *)
graceTimeout ==
  /\ capture.graceAt # NoTimer
  /\ capture.clock >= capture.graceAt
  /\ capture' = [RecorderStopped(capture) EXCEPT !.graceAt = NoTimer]
  /\ lastOp' = Op("graceTimeout")
  /\ UNCHANGED <<frame, routing, savedRoute>>
  /\ UNCHANGED <<route, selectedWaypointId, selectedSegmentId, animation, now>>

(* mutant: the safety timeout that only cancels the capture timer *)
SafetyStoppedKeepsRecording(c) ==
  [c EXCEPT !.interval = FALSE]

(* the body of the safety timeout: if (mediaRecorder.state !== 'inactive')  *)
(* { clearInterval(captureInterval); mediaRecorder.stop(); }                *)
SafetyStopped(c) ==
  IF c.recorder # "inactive"
  THEN [RecorderStopped(c) EXCEPT !.interval = FALSE]
  ELSE c

(* setTimeout(..., 300000) *)
safetyTimeout ==
  /\ capture.safety
  /\ capture.clock >= HardTimeoutMs
  /\ capture' = [SafetyStopped(capture) EXCEPT !.safety = FALSE]
  /\ lastOp' = Op("safetyTimeout")
  /\ UNCHANGED <<frame, routing, savedRoute>>
  /\ UNCHANGED <<route, selectedWaypointId, selectedSegmentId, animation, now>>

(* mutant: an onstop that leaves playback alone *)
onstopKeepsPlayback ==
  /\ capture.stopEvent
  /\ capture' = [capture EXCEPT !.stopEvent = FALSE, !.isExporting = FALSE,
                                !.uiIsExporting = FALSE, !.exportProgress = 0]
  /\ lastOp' = Op("onstop")
  /\ UNCHANGED <<frame, routing, savedRoute>>
  /\ UNCHANGED <<route, selectedWaypointId, selectedSegmentId, animation, now>>

(* mediaRecorder.onstop: download, both export flags down, stop() *)
onstop ==
  /\ capture.stopEvent
  /\ capture' = [capture EXCEPT !.stopEvent = FALSE, !.isExporting = FALSE,
                                !.uiIsExporting = FALSE, !.exportProgress = 0]
  /\ animation' = [isPlaying |-> FALSE, isPaused |-> FALSE, currentProgress |-> 0,
                   currentSegmentIndex |-> 0, segmentProgress |-> 0,
                   speed |-> animation.speed]
  /\ lastOp' = Op("onstop")
  /\ UNCHANGED <<frame, routing, savedRoute>>
  /\ UNCHANGED <<route, selectedWaypointId, selectedSegmentId, now>>

(* the deadline of the earliest armed timeout *)
NextDeadline ==
  IF capture.graceAt # NoTimer
  THEN (IF capture.safety THEN Min(capture.graceAt, HardTimeoutMs) ELSE capture.graceAt)
  ELSE HardTimeoutMs

(* time passes: GraceMs milliseconds, never past the deadline of an armed   *)
(* timeout (a due timeout runs before the clock is read again)              *)
AdvanceTime ==
  /\ capture.safety \/ capture.graceAt # NoTimer
  /\ capture.clock + GraceMs <= NextDeadline
  /\ capture' = [capture EXCEPT !.clock = @ + GraceMs]
  /\ lastOp' = Op("time")
  /\ UNCHANGED <<frame, routing, savedRoute>>
  /\ UNCHANGED <<route, selectedWaypointId, selectedSegmentId, animation, now>>

(* ----------------------------- input sets ------------------------------ *)
(* an id that names no waypoint and no segment of the store *)
UnknownId == generateId(UsedWaypointIds \cup UsedSegmentIds)
WaypointIdInputs == (WaypointIds \ {NoId}) \cup {UnknownId}
SegmentIdInputs == SegmentIds \cup {UnknownId}
ValidIndexes == 0 .. (Len(route.waypoints) - 1)
(* the indexes of the waypoints; index 0 for the call made with no route *)
ReorderInputs == IF route = Null THEN {0} ELSE ValidIndexes

(* -- Spec: the route model with coordinates, labels, paths and dates ---- *)
(* (transport modes vary in SpecSegments, playback in SpecPlayback)        *)
Next ==
  \/ AdvanceClock
  \/ \E name \in Names : createRoute(name)
  \/ \E pl \in Places :
       /\ Len(route.waypoints) < MaxWp
       /\ addWaypoint(pl.coordinates, pl.label)
  \/ \E id \in WaypointIdInputs, u \in Updates : updateWaypoint(id, u)
  \/ \E id \in WaypointIdInputs : removeWaypoint(id)
  \/ \E f \in ReorderInputs, t \in ReorderInputs : reorderWaypoints(f, t)
  \/ \E id \in SegmentIdInputs : updateSegmentTransport(id, "car")
  \/ \E id \in SegmentIdInputs, p \in PathInputs : updateSegmentPath(id, p)
  \/ clearRoute

Spec == Init /\ [][Next]_vars

(* ------ SpecStructure: structural edits with any index, one place ------ *)
NextStructure ==
  \/ \E name \in Names : createRoute(name)
  \/ /\ Len(route.waypoints) < MaxWp
     /\ addWaypoint(<<0, 0>>, UndefLabel)
  \/ \E id \in WaypointIdInputs : removeWaypoint(id)
  \/ \E f \in IndexInputs, t \in IndexInputs :
       /\ Len(MoveWaypoint(route.waypoints, f, t)) <= MaxWp
       /\ reorderWaypoints(f, t)
  \/ clearRoute

SpecStructure == Init /\ [][NextStructure]_vars

(* ---- SpecSegments: structural edits and segment edits, one place ------ *)
NextSegments ==
  \/ \E name \in Names : createRoute(name)
  \/ /\ Len(route.waypoints) < MaxWp
     /\ addWaypoint(<<0, 0>>, UndefLabel)
  \/ \E id \in WaypointIdInputs : removeWaypoint(id)
  \/ \E f \in ValidIndexes, t \in ValidIndexes : reorderWaypoints(f, t)
  \/ \E id \in SegmentIdInputs, m \in TransportModes : updateSegmentTransport(id, m)
  \/ \E id \in SegmentIdInputs : updateSegmentPath(id, <<<<0, 0>>, <<0, 0>>>>)
  \/ clearRoute

SpecSegments == Init /\ [][NextSegments]_vars

(* ------- SpecPlayback: the playback engine over structural edits ------- *)
(* (one place; the reorder moves the first waypoint to the end)            *)
NextPlayback ==
  \/ \E name \in Names : createRoute(name)
  \/ /\ Len(route.waypoints) < MaxWp
     /\ addWaypoint(<<0, 0>>, UndefLabel)
  \/ \E id \in WaypointIdInputs : removeWaypoint(id)
  \/ /\ Len(route.waypoints) >= 2
     /\ reorderWaypoints(0, Len(route.waypoints) - 1)
  \/ clearRoute
  \/ playAnimation
  \/ pauseAnimation
  \/ stopAnimation
  \/ \E p \in ProgressInputs : setAnimationProgress(p)
  \/ \E s \in SPEED_OPTIONS : setAnimationSpeed(s)
  \/ \E dt \in DeltaTimes : updateAnimationFrame(dt)

SpecPlayback == Init /\ [][NextPlayback]_vars

(* ---- SpecControls: the playback controls on a route that only grows ---- *)
NextControls ==
  \/ \E name \in Names : createRoute(name)
  \/ /\ Len(route.waypoints) < MaxWp
     /\ addWaypoint(<<0, 0>>, UndefLabel)
  \/ clearRoute
  \/ playAnimation
  \/ pauseAnimation
  \/ stopAnimation
  \/ \E p \in ProgressInputs : setAnimationProgress(p)
  \/ \E s \in SPEED_OPTIONS : setAnimationSpeed(s)
  \/ \E dt \in DeltaTimes : updateAnimationFrame(dt)

SpecControls == Init /\ [][NextControls]_vars

(* ---- SpecTicks: playback left to the animation loop while Playing ----- *)
(* (the loop of useAnimation requests a frame after every frame while       *)
(* isPlaying holds, so ticks with a positive deltaTime keep arriving)       *)
Tick == \E dt \in PositiveDeltaTimes : updateAnimationFrame(dt)

NextTicks ==
  \/ /\ ~animation.isPlaying
     /\ \/ \E name \in Names : createRoute(name)
        \/ /\ Len(route.waypoints) < MaxWp
           /\ addWaypoint(<<0, 0>>, UndefLabel)
        \/ \E s \in SPEED_OPTIONS : setAnimationSpeed(s)
        \/ \E p \in ProgressInputs : setAnimationProgress(p)
        \/ playAnimation
  \/ updateAnimationFrame(0)
  \/ Tick

SpecTicks == Init /\ [][NextTicks]_vars /\ WF_vars(Tick)

(* ---- SpecRounding: ticks whose increment the arithmetic rounds --------- *)
NextRounding ==
  \/ \E name \in Names : createRoute(name)
  \/ /\ Len(route.waypoints) < MaxWp
     /\ addWaypoint(<<0, 0>>, UndefLabel)
  \/ \E s \in SPEED_OPTIONS : setAnimationSpeed(s)
  \/ playAnimation
  \/ pauseAnimation
  \/ \E dt \in RoundedDeltaTimes : updateAnimationFrame(dt)

SpecRounding == Init /\ [][NextRounding]_vars

(* ------ SpecCapture: capture runs over a route of one segment ---------- *)
(* (the export button is disabled while the panel's isExporting is set;    *)
(* the capture interval fires at any time while it is armed)               *)
NextCapture ==
  \/ /\ capture.pc = "idle"
     /\ \/ \E name \in Names : createRoute(name)
        \/ /\ Len(route.segments) = 0
           /\ addWaypoint(<<0, 0>>, UndefLabel)
        \/ /\ Len(route.waypoints) > 0
           /\ removeWaypoint(route.waypoints[1].id)
        \/ playAnimation
        \/ pauseAnimation
        \/ setAnimationProgress(PScale)
        \/ updateAnimationFrame(TickUnit)
        \/ /\ ~capture.isExporting
           /\ \E setup \in SetupOutcomes : handleExport(setup)
        \/ /\ capture.frames < MaxFrames
           /\ captureInterval
        \/ graceTimeout
        \/ safetyTimeout
        \/ onstop
        \/ AdvanceTime
  \/ handleExportStop
  \/ handleExportPlay

SpecCapture == Init /\ [][NextCapture]_vars

(* a path of one point, as a path edit can leave it *)
ShortPath == <<<<0, 0>>>>

(* ---- SpecSampler: frames sampled over playback and path edits ---------- *)
NextSampler ==
  \/ \E name \in Names : createRoute(name)
  \/ /\ Len(route.waypoints) < MaxWp
     /\ addWaypoint(<<0, 0>>, UndefLabel)
  \/ /\ Len(route.segments) > 0
     /\ \E p \in PathInputs \cup {ShortPath} : updateSegmentPath(route.segments[1].id, p)
  \/ playAnimation
  \/ \E p \in ProgressInputs : setAnimationProgress(p)
  \/ updateAnimationFrame(TickUnit)
  \/ getAnimationFrame

SpecSampler == Init /\ [][NextSampler]_vars

(* the place of the n-th waypoint added: two places far enough apart for an *)
(* arc of several units, each of them twice in a row                        *)
ArcPlace(n) == IF (n \div 2) % 2 = 0 THEN <<0, 0>> ELSE <<30, 40>>

(* ---- SpecRouting: route lookups over edits of the route ---------------- *)
(* (the lookup button is disabled while isLoadingRoute is set; while a      *)
(* lookup is pending the first waypoint may be removed)                     *)
NextRouting ==
  \/ /\ ~routing.isLoadingRoute
     /\ \/ \E name \in Names : createRoute(name)
        \/ /\ Len(route.waypoints) < MaxWp
           /\ addWaypoint(ArcPlace(Len(route.waypoints) + 1), UndefLabel)
        \/ /\ Len(route.segments) > 0
           /\ updateSegmentTransport(route.segments[1].id, "plane")
        \/ handleFetchRoutes
  \/ /\ routing.isLoadingRoute
     /\ removeWaypoint(route.waypoints[1].id)
  \/ \E response \in RoutingResponses : fetchRouteSettled(response)

SpecRouting == Init /\ [][NextRouting]_vars

(* the label of the n-th waypoint added: none, then a name, in turn *)
LabelOf(n) == IF n % 2 = 1 THEN UndefLabel ELSE "Home"

(* ---- SpecDocuments: routes saved and loaded among edits ---------------- *)
(* (the route is built and edited before the first save; afterwards time    *)
(* passes and the store loses waypoints or the whole route before a load)   *)
NextDocuments ==
  \/ /\ savedRoute.json = <<>>
     /\ \/ \E name \in Names : createRoute(name)
        \/ /\ Len(route.waypoints) < MaxWp
           /\ addWaypoint(<<Len(route.waypoints), 0>>, LabelOf(Len(route.waypoints) + 1))
        \/ /\ Len(route.segments) > 0
           /\ \/ updateSegmentTransport(route.segments[1].id, "plane")
              \/ \E p \in PathInputs : updateSegmentPath(route.segments[1].id, p)
  \/ /\ savedRoute.json # <<>>
     /\ \/ AdvanceClock
        \/ /\ Len(route.waypoints) > 0
           /\ removeWaypoint(route.waypoints[1].id)
        \/ clearRoute
  \/ handleSaveRoute
  \/ \E file \in FileInputs : handleLoadRoute(file)

SpecDocuments == Init /\ [][NextDocuments]_vars

(* ---- SpecRemoval: removals over segments with edited modes and paths -- *)
NextRemoval ==
  \/ \E name \in Names : createRoute(name)
  \/ /\ Len(route.waypoints) < MaxWp
     /\ addWaypoint(<<0, 0>>, UndefLabel)
  \/ \E id \in WaypointIds : removeWaypoint(id)
  \/ /\ Len(route.waypoints) >= 2
     /\ reorderWaypoints(0, Len(route.waypoints) - 1)
  \/ \E id \in SegmentIds : updateSegmentTransport(id, "plane")
  \/ \E id \in SegmentIds, p \in PathInputs : updateSegmentPath(id, p)

SpecRemoval == Init /\ [][NextRemoval]_vars

(* ---- SpecReorder: moves over segments with edited modes and paths ----- *)
NextReorder ==
  \/ \E name \in Names : createRoute(name)
  \/ /\ Len(route.waypoints) < MaxWp
     /\ addWaypoint(<<Len(route.waypoints), 0>>, UndefLabel)
  \/ \E f \in ValidIndexes, t \in ValidIndexes : reorderWaypoints(f, t)
  \/ /\ route.segments # <<>>
     /\ updateSegmentTransport(route.segments[1].id, "plane")
  \/ /\ route.segments # <<>>
     /\ \E p \in PathInputs : updateSegmentPath(route.segments[1].id, p)

SpecReorder == Init /\ [][NextReorder]_vars

(* ---- SpecEdits: segment edits under playback, selection and clock ----- *)
(* (one waypoint and one segment to select; playback takes its first tick) *)
NextEdits ==
  \/ /\ route.segments # <<>>
     /\ AdvanceClock
  \/ \E name \in Names : createRoute(name)
  \/ /\ Len(route.waypoints) < MaxWp
     /\ addWaypoint(<<0, 0>>, UndefLabel)
  \/ /\ route.waypoints # <<>>
     /\ selectWaypoint(route.waypoints[1].id)
  \/ /\ route.segments # <<>>
     /\ selectSegment(route.segments[Len(route.segments)].id)
  \/ playAnimation
  \/ /\ animation.currentProgress = 0
     /\ updateAnimationFrame(TickUnit)
  \/ \E id \in SegmentIds, m \in TransportModes : updateSegmentTransport(id, m)
  \/ \E id \in SegmentIds, p \in PathInputs : updateSegmentPath(id, p)

SpecEdits == Init /\ [][NextEdits]_vars

(* ---- SpecWaypoints: the waypoint list under additions, removals, moves - *)
(* (the n-th waypoint added has coordinates (n - 1, 0) and the label LabelOf(n)) *)
NextWaypoints ==
  \/ \E name \in Names : createRoute(name)
  \/ /\ Len(route.waypoints) < MaxWp
     /\ addWaypoint(<<Len(route.waypoints), 0>>, LabelOf(Len(route.waypoints) + 1))
  \/ \E id \in WaypointIdInputs : removeWaypoint(id)
  \/ \E f \in ValidIndexes, t \in ValidIndexes : reorderWaypoints(f, t)

SpecWaypoints == Init /\ [][NextWaypoints]_vars

(* ---- SpecLateResults: route lookups that settle after edits ------------ *)
(* (the lookup button is disabled while isLoadingRoute is set, the mode       *)
(* selectors and the remove buttons are not)                                  *)
NextLateResults ==
  \/ /\ ~routing.isLoadingRoute
     /\ \/ \E name \in Names : createRoute(name)
        \/ /\ Len(route.waypoints) < MaxWp
           /\ addWaypoint(ArcPlace(Len(route.waypoints) + 1), UndefLabel)
        \/ handleFetchRoutes
  \/ \E id \in SegmentIds, m \in TransportModes : handleTransportChange(id, m)
  \/ /\ routing.isLoadingRoute
     /\ removeWaypoint(route.waypoints[1].id)
  \/ \E response \in RoutingResponses : fetchRouteSettled(response)

SpecLateResults == Init /\ [][NextLateResults]_vars

(* ---- SpecSelection: the selection over edits of the route -------------- *)
(* (waypoints are selected in the list or on the map, segments by the edit   *)
(* button of handleEditPath, which also clears the selection; a route is    *)
(* created when there is none)                                               *)
NextSelection ==
  \/ /\ route = Null
     /\ \E name \in Names : createRoute(name)
  \/ /\ Len(route.waypoints) < MaxWp
     /\ addWaypoint(<<0, 0>>, UndefLabel)
  \/ \E id \in WaypointIds : selectWaypoint(id)
  \/ \E id \in SegmentIds \cup {NoId} : selectSegment(id)
  \/ \E id \in WaypointIds : removeWaypoint(id)
  \/ /\ Len(route.waypoints) >= 2
     /\ reorderWaypoints(0, Len(route.waypoints) - 1)
  \/ clearRoute

SpecSelection == Init /\ [][NextSelection]_vars

(* ---- SpecFrames: the frames of capture runs no hard timeout ends ------ *)
(* seconds of ticks from progress 0 to completion: 1 / (0.05 * speed) *)
PlaybackSeconds(speed) == 100 \div (RatePercent * speed)
(* frames of a capture at exportConfig.fps that lasts the whole playback *)
NominalFrames(speed) == FramesPerSecond * PlaybackSeconds(speed)

(* (time passes only while the grace delay runs; the capture interval fires *)
(* at any time while armed, up to the frames of a whole playback)           *)
NextFrames ==
  \/ /\ capture.pc = "idle"
     /\ \/ \E name \in Names : createRoute(name)
        \/ /\ Len(route.segments) = 0
           /\ addWaypoint(<<0, 0>>, UndefLabel)
        \/ /\ ~capture.isExporting
           /\ \/ \E s \in SPEED_OPTIONS : setAnimationSpeed(s)
              \/ \E p \in ProgressInputs : setAnimationProgress(p)
              \/ handleExport("ok")
        \/ updateAnimationFrame(TickUnit)
        \/ /\ capture.frames < NominalFrames(animation.speed)
           /\ captureInterval
        \/ graceTimeout
        \/ onstop
        \/ /\ capture.graceAt # NoTimer
           /\ AdvanceTime
  \/ handleExportStop
  \/ handleExportPlay

SpecFrames == Init /\ [][NextFrames]_vars

(* ============================== claims ================================= *)
StoppedAtZero(a, speed) ==
  a = [isPlaying |-> FALSE, isPaused |-> FALSE, currentProgress |-> 0,
       currentSegmentIndex |-> 0, segmentProgress |-> 0, speed |-> speed]

(* C1: after every call in any sequence of addWaypoint, removeWaypoint and   *)
(* reorderWaypoints on a created route, the number of segments is            *)
(* max(number of waypoints - 1, 0).                                          *)
C1_SegmentCount ==
  route # Null => Len(route.segments) = Max(Len(route.waypoints) - 1, 0)

(* a middle waypoint of three has been removed: two waypoints, one segment *)
C1_Witness ==
  /\ lastOp.op = "removeWaypoint"
  /\ Len(route.waypoints) = 2
  /\ Len(route.segments) = 1
  /\ route.waypoints[2].id - route.waypoints[1].id = 2

(* C2: after every route model operation, segment i starts at waypoint i and *)
(* ends at waypoint i+1 of the current waypoint order.                       *)
C2_SegmentsConnectConsecutive ==
  \A i \in DOMAIN route.segments :
    /\ i + 1 \in DOMAIN route.waypoints
    /\ route.segments[i].startWaypointId = route.waypoints[i].id
    /\ route.segments[i].endWaypointId = route.waypoints[i + 1].id

(* a reorder has put a later waypoint before an earlier one, two segments *)
C2_Witness ==
  /\ lastOp.op = "reorderWaypoints"
  /\ Len(route.segments) = 2
  /\ route.waypoints[1].id > route.waypoints[2].id
  /\ \E i \in DOMAIN route.segments : route.segments[i].transportMode = "plane"

(* C3: in every reachable state the first point of each segment's path is    *)
(* the coordinates of its start waypoint and the last point the coordinates  *)
(* of its end waypoint.                                                      *)
C3_PathEndpoints ==
  \A i \in DOMAIN route.segments :
    LET seg == route.segments[i]
    IN  \A k \in DOMAIN route.waypoints :
          /\ route.waypoints[k].id = seg.startWaypointId
               => seg.path[1] = route.waypoints[k].coordinates
          /\ route.waypoints[k].id = seg.endWaypointId
               => seg.path[Len(seg.path)] = route.waypoints[k].coordinates

(* C4: whenever the route has a segment, currentSegmentIndex is an index of  *)
(* a segment, segmentProgress is in [0,1] and currentProgress equals         *)
(* (currentSegmentIndex + segmentProgress) / segments.length.                *)
C4_ProgressConsistent ==
  (route # Null /\ Len(route.segments) >= 1) =>
    /\ animation.currentSegmentIndex \in 0 .. (Len(route.segments) - 1)
    /\ animation.segmentProgress \in 0 .. PScale
    /\ animation.currentProgress * Len(route.segments)
         = animation.currentSegmentIndex * PScale + animation.segmentProgress

(* C5: an addWaypoint, removeWaypoint or reorderWaypoints that changes the   *)
(* route leaves the animation stopped at progress 0, segment 0, with the     *)
(* speed it had.                                                             *)
C5_StructuralEditResets ==
  [][(/\ lastOp'.op \in {"addWaypoint", "removeWaypoint", "reorderWaypoints"}
      /\ route' # route)
       => StoppedAtZero(animation', animation.speed)]_vars

(* a waypoint was removed while playing at double speed; playback is reset *)
C5_Witness ==
  /\ lastOp = [op |-> "removeWaypoint", from |-> "Playing"]
  /\ Len(route.waypoints) = 2
  /\ StoppedAtZero(animation, 2)

(* C6: for every progress p in [0,1], p = 1 included, and every route with a *)
(* segment, after setAnimationProgress(p) the value                          *)
(* (currentSegmentIndex + segmentProgress) / segmentCount equals p.          *)
C6_ScrubReconstructs ==
  [][\A p \in ProgressInputs :
       (route # Null /\ Len(route.segments) >= 1 /\ setAnimationProgress(p))
         => animation'.currentSegmentIndex * PScale + animation'.segmentProgress
              = p * Len(route.segments)]_vars

(* C7 as stated: in every reachable state updateAnimationFrame(0) leaves    *)
(* the animation state unchanged.                                            *)
C7_TickZeroNoChange ==
  [][updateAnimationFrame(0) => animation' = animation]_vars

(* C7, amended: updateAnimationFrame(0) leaves the animation state unchanged *)
(* unless it is called while playing on a route with a segment at            *)
(* currentProgress = 1; there it completes the playback: stopped, progress   *)
(* 0, speed unchanged.                                                       *)
C7_TickZeroNoChangeBelowOne ==
  [][updateAnimationFrame(0) =>
       IF /\ route # Null
          /\ Len(route.segments) >= 1
          /\ animation.isPlaying
          /\ animation.currentProgress = PScale
       THEN StoppedAtZero(animation', animation.speed)
       ELSE animation' = animation]_vars

(* a tick has left playback running at progress 1/PScale with speed 2: the   *)
(* increments at that speed are even, so the tick had deltaTime 0            *)
C7_Witness ==
  /\ lastOp = [op |-> "updateAnimationFrame", from |-> "Playing"]
  /\ animation.isPlaying
  /\ animation.speed = 2
  /\ animation.currentProgress = 1
  /\ Len(route.segments) = 2

(* C8: while playing on a route with a segment, a tick whose increment       *)
(* brings currentProgress to 1 or beyond leaves the animation stopped at     *)
(* progress 0 with the speed unchanged, and no tick leaves currentProgress   *)
(* above 1.                                                                  *)
C8_CompletionRewinds ==
  [][\A dt \in DeltaTimes :
       updateAnimationFrame(dt) =>
         /\ animation'.currentProgress <= PScale
         /\ (/\ route # Null
             /\ Len(route.segments) >= 1
             /\ animation.isPlaying
             /\ animation.currentProgress + ProgressIncrement(dt, animation.speed) >= PScale)
              => StoppedAtZero(animation', animation.speed)]_vars

(* a tick taken while playing at double speed has completed the playback *)
C8_Witness ==
  /\ lastOp = [op |-> "updateAnimationFrame", from |-> "Playing"]
  /\ Len(route.segments) = 2
  /\ StoppedAtZero(animation, 2)

(* C9: a segment that removeWaypoint builds for a new consecutive pair takes *)
(* its transportMode from a segment of the old route that touched one of the *)
(* pair's endpoints, and is 'car' only when there was no such segment.       *)
C9_InheritsAdjacentMode ==
  [][\A id \in WaypointIdInputs :
       removeWaypoint(id) =>
         \A j \in DOMAIN route'.segments :
           LET seg == route'.segments[j]
               ends == {seg.startWaypointId, seg.endWaypointId}
               built == \A k \in DOMAIN route.segments :
                          \/ route.segments[k].startWaypointId # seg.startWaypointId
                          \/ route.segments[k].endWaypointId # seg.endWaypointId
               touching == {k \in DOMAIN route.segments :
                              \/ route.segments[k].startWaypointId \in ends
                              \/ route.segments[k].endWaypointId \in ends}
           IN  built =>
                 IF touching = {} THEN seg.transportMode = "car"
                 ELSE seg.transportMode
                        \in {route.segments[k].transportMode : k \in touching}]_vars

(* C10: a route model operation called with no route, and removeWaypoint,    *)
(* updateWaypoint, updateSegmentTransport and updateSegmentPath called with  *)
(* an id that is not in the route, leave the whole store unchanged,          *)
(* route.updatedAt included.                                                 *)
C10_MissingTargetNoOp ==
  [][(\/ /\ route = Null
         /\ lastOp'.op \in {"addWaypoint", "updateWaypoint", "removeWaypoint",
                            "reorderWaypoints", "updateSegmentTransport",
                            "updateSegmentPath"}
      \/ removeWaypoint(UnknownId)
      \/ \E u \in Updates : updateWaypoint(UnknownId, u)
      \/ \E m \in TransportModes : updateSegmentTransport(UnknownId, m)
      \/ \E p \in PathInputs : updateSegmentPath(UnknownId, p))
       => UNCHANGED <<route, selectedWaypointId, selectedSegmentId, animation>>]_vars

(* C11: reorderWaypoints(fromIndex, toIndex) never adds or drops a waypoint, *)
(* for every pair of indexes, also outside the waypoint list and on a route  *)
(* with no waypoints: the set of waypoint ids is the same after the call,    *)
(* and with an index out of range the route and the animation are unchanged. *)
C11_ReorderKeepsWaypoints ==
  [][\A f \in IndexInputs, t \in IndexInputs :
       reorderWaypoints(f, t) =>
         /\ WaypointIds' = WaypointIds
         /\ (f \notin ValidIndexes \/ t \notin ValidIndexes)
              => UNCHANGED <<route, animation>>]_vars

(* C12: stopAnimation called in any playback state at any progress leaves    *)
(* the animation stopped at progress 0, segment 0, with the speed it had,    *)
(* and leaves the route unchanged.                                           *)
C12_StopResets ==
  [][lastOp'.op = "stopAnimation"
       => /\ StoppedAtZero(animation', animation.speed)
          /\ route' = route]_vars

(* a paused playback at double speed on two segments has been stopped *)
C12_Witness ==
  /\ lastOp = [op |-> "stopAnimation", from |-> "Paused"]
  /\ Len(route.segments) = 2
  /\ StoppedAtZero(animation, 2)

(* C13: setAnimationProgress(progress) leaves isPlaying, isPaused and speed  *)
(* unchanged in every playback state and sets currentProgress = progress,    *)
(* currentSegmentIndex = min(floor(progress * segmentCount), segmentCount-1) *)
(* and segmentProgress = (progress * segmentCount) mod 1; with no route or   *)
(* no segment it changes nothing.                                            *)
C13_ScrubSetsProgress ==
  [][\A p \in ProgressInputs :
       setAnimationProgress(p) =>
         IF route = Null \/ Len(route.segments) = 0
         THEN animation' = animation
         ELSE LET n == Len(route.segments)
              IN  /\ animation'.isPlaying = animation.isPlaying
                  /\ animation'.isPaused = animation.isPaused
                  /\ animation'.speed = animation.speed
                  /\ animation'.currentProgress = p
                  /\ animation'.currentSegmentIndex = Min((p * n) \div PScale, n - 1)
                  /\ animation'.segmentProgress = (p * n) % PScale]_vars

(* a paused playback on two segments has been scrubbed to progress 1: the    *)
(* index is clamped to the last segment                                      *)
C13_Witness ==
  /\ lastOp = [op |-> "setAnimationProgress", from |-> "Paused"]
  /\ animation.isPaused
  /\ Len(route.segments) = 2
  /\ animation.currentProgress = PScale
  /\ animation.currentSegmentIndex = 1

(* C14: playAnimation from Stopped or Paused yields Playing, pauseAnimation  *)
(* from Playing yields Paused, and both leave currentProgress,               *)
(* currentSegmentIndex, segmentProgress and speed unchanged.                 *)
C14_PlayPause ==
  [][/\ (/\ lastOp'.op = "playAnimation"
         /\ PlaybackState(animation) \in {"Stopped", "Paused"})
          => animation' = [animation EXCEPT !.isPlaying = TRUE, !.isPaused = FALSE]
     /\ (/\ lastOp'.op = "pauseAnimation"
         /\ PlaybackState(animation) = "Playing")
          => animation' = [animation EXCEPT !.isPlaying = FALSE, !.isPaused = TRUE]]_vars

(* a playback running at double speed has been paused half way *)
C14_Witness ==
  /\ lastOp = [op |-> "pauseAnimation", from |-> "Playing"]
  /\ PlaybackState(animation) = "Paused"
  /\ animation.speed = 2
  /\ animation.currentProgress = 2

(* C15: in every reachable state the Stopped state has progress 0: when      *)
(* isPlaying and isPaused are both false, currentProgress,                   *)
(* currentSegmentIndex and segmentProgress are 0.                            *)
C15_StoppedAtProgressZero ==
  (~animation.isPlaying /\ ~animation.isPaused) =>
    /\ animation.currentProgress = 0
    /\ animation.currentSegmentIndex = 0
    /\ animation.segmentProgress = 0

C17_TickSplit ==
  /\ [](animation.isPlaying =>
          \A a \in RoundedDeltaTimes, b \in RoundedDeltaTimes :
            Ticked(Ticked(animation, a), b) = Ticked(animation, a + b))
  /\ [][\A dt \in RoundedDeltaTimes :
          updateAnimationFrame(dt) => animation' = Ticked(animation, dt)]_vars

(* C18: a capture run starts in this order: playback is reset to Stopped,    *)
(* then the encoder is started, then playback is started; the encoder is     *)
(* never started while playback is anywhere but Stopped at progress 0.       *)
C18_CaptureStartOrder ==
  [][/\ (capture.recorder # "recording" /\ capture'.recorder = "recording")
          => /\ StoppedAtZero(animation, animation.speed)
             /\ StoppedAtZero(animation', animation.speed)
     /\ lastOp'.op = "handleExportPlay"
          => /\ capture.recorder = "recording"
             /\ StoppedAtZero(animation, animation.speed)]_vars

(* C19: in a capture run, once the playback progress has reached 0.99 the    *)
(* capture timer observes it: the firing that finds currentProgress >= 0.99  *)
(* cancels the timer and arms the grace timeout, and the grace timeout stops *)
(* the encoder, so the run does not wait for the hard timeout.               *)
C19_CaptureObservesCompletion ==
  [][/\ (captureInterval /\ NearOne(animation.currentProgress))
          => /\ ~capture'.interval
             /\ capture'.graceAt = capture.clock + GraceMs
     /\ (graceTimeout /\ capture.recorder = "recording")
          => capture'.recorder = "inactive"]_vars

(* C20: a started capture run is stopped no later than the hard timeout of   *)
(* 300000 ms, whatever the playback does: a recording encoder always has the *)
(* timeout armed and the clock of its run has not passed it, and when the    *)
(* timeout fires on an active encoder the capture timer is cancelled and the *)
(* encoder is stopped.                                                       *)
C20_HardTimeout ==
  /\ []((capture.recorder = "recording" /\ capture.pc = "idle")
          => (capture.safety /\ capture.clock <= HardTimeoutMs))
  /\ [][(safetyTimeout /\ capture.recorder = "recording")
          => /\ ~capture'.interval
             /\ capture'.recorder = "inactive"
             /\ capture.clock = HardTimeoutMs]_vars

(* the hard timeout has stopped a run that the capture timer never ended *)
C20_Witness ==
  /\ lastOp.op = "safetyTimeout"
  /\ capture.clock = HardTimeoutMs
  /\ capture.recorder = "inactive"
  /\ capture.stopEvent
  /\ ~capture.interval
  /\ capture.graceAt = NoTimer
(* C21: a capture attempt whose setup fails (no map canvas, no 2D context,  *)
(* an encoder that cannot be constructed or started) leaves the playback    *)
(* state as it was, leaves both export flags false and arms no timer: the   *)
(* capture interval is off, the two timeouts and the recorder are as they   *)
(* were before the attempt.                                                 *)
C21_SetupFailureAborts ==
  [][\A setup \in SetupFailures :
       (hasRoute /\ ~capture.isExporting /\ handleExport(setup))
         => /\ animation' = animation
            /\ ~capture'.isExporting
            /\ ~capture'.uiIsExporting
            /\ capture'.pc = "idle"
            /\ ~capture'.interval
            /\ capture'.graceAt = capture.graceAt
            /\ capture'.safety = capture.safety
            /\ capture'.recorder = capture.recorder]_vars

(* a failed attempt made on a route with a segment while playback is Playing *)
C21_Witness ==
  /\ lastOp = [op |-> "handleExport", from |-> "Playing"]
  /\ hasRoute
  /\ capture.pc = "idle"
  /\ animation.isPlaying
  /\ ~capture.isExporting

C23_StopIdempotent ==
  [][/\ lastOp'.op = "graceTimeout" => capture.recorder = "recording"
     /\ (lastOp'.op = "safetyTimeout" /\ capture'.recorder # capture.recorder)
          => capture.recorder = "recording"
     /\ lastOp'.op = "onstop"
          => (capture.recorder = "inactive" /\ capture.stopEvent /\ ~capture'.stopEvent)]_vars

(* C24: a capture at 30 frames per second of a playback that lasts 10       *)
(* seconds (speed 2), ended by the completion path and not by the hard      *)
(* timeout, has copied at least 270 frames (nine tenths of the 300 nominal  *)
(* frames) when its encoder is stopped.                                     *)
C24_FramesCaptured ==
  [][(lastOp'.op = "graceTimeout" /\ capture.recorder = "recording"
        /\ PlaybackSeconds(animation.speed) = 10)
       => 10 * capture.frames >= 9 * NominalFrames(animation.speed)]_vars

(* C25: a firing of the capture interval leaves the playback state and the *)
(* route unchanged: it copies one frame, sets the store's export flag and   *)
(* export progress, and may cancel itself and arm the grace delay.  Of the  *)
(* steps of the capture protocol (start, interval, timeouts, stop event,    *)
(* passing time) only the stop()/play() of the start and the stop() of the  *)
(* stop event change the playback state.                                    *)
C25_IntervalLeavesPlayback ==
  /\ [][lastOp'.op = "captureInterval"
         => /\ animation' = animation
            /\ route' = route
            /\ capture'.frames = capture.frames + 1
            /\ capture'.uiIsExporting
            /\ capture' = [capture EXCEPT !.frames = capture'.frames,
                                          !.uiIsExporting = TRUE,
                                          !.exportProgress = capture'.exportProgress,
                                          !.interval = capture'.interval,
                                          !.graceAt = capture'.graceAt]]_vars
  /\ [][(lastOp'.op \in {"handleExport", "captureInterval", "graceTimeout",
                         "safetyTimeout", "time"})
         => animation' = animation]_vars

(* a firing that saw completion while playback was Playing past progress 0 *)
C25_Witness ==
  /\ lastOp = [op |-> "captureInterval", from |-> "Playing"]
  /\ animation.isPlaying
  /\ animation.currentProgress > 0
  /\ capture.frames = 1
  /\ capture.graceAt # NoTimer

(* C30: after removeWaypoint has removed a waypoint, every pair of          *)
(* consecutive remaining waypoints that an old segment joined in that       *)
(* direction keeps that segment as it was (id, transportMode, path); every  *)
(* other pair gets a segment with an id no old segment had and the path     *)
(* [start coordinates, end coordinates].                                    *)
C30_RemoveKeepsSegments ==
  [][(lastOp'.op = "removeWaypoint" /\ Len(route'.waypoints) < Len(route.waypoints))
       => LET old == route.segments
              wps == route'.waypoints
              new == route'.segments
          IN  /\ Len(new) = Max(Len(wps) - 1, 0)
              /\ \A i \in 1 .. (Len(wps) - 1) :
                    LET joined == {k \in DOMAIN old :
                                     /\ old[k].startWaypointId = wps[i].id
                                     /\ old[k].endWaypointId = wps[i + 1].id}
                    IN  IF joined # {}
                        THEN \A k \in joined : new[i] = old[k]
                        ELSE /\ new[i].id \notin {old[k].id : k \in DOMAIN old}
                             /\ new[i].startWaypointId = wps[i].id
                             /\ new[i].endWaypointId = wps[i + 1].id
                             /\ new[i].path = <<wps[i].coordinates,
                                                wps[i + 1].coordinates>>]_vars

(* a removal after which the one remaining segment is an old one, with the  *)
(* mode and the three-point path that edits gave it                         *)
C30_Witness ==
  /\ lastOp.op = "removeWaypoint"
  /\ Len(route.waypoints) = 2
  /\ Len(route.segments) = 1
  /\ route.segments[1].transportMode = "plane"
  /\ Len(route.segments[1].path) = 3

(* C27: getAnimationFrame returns null exactly when there is no route, no  *)
(* segment at currentSegmentIndex, or a current segment whose path has      *)
(* fewer than two points; otherwise the frame carries the animation's       *)
(* currentSegmentIndex and currentProgress; the call changes neither the    *)
(* route nor the animation.                                                 *)
C27_SamplerReadsOnly ==
  [][lastOp'.op = "getAnimationFrame"
       => LET noSegment == \/ route = Null
                           \/ (animation.currentSegmentIndex + 1) \notin DOMAIN route.segments
              shortPath == /\ ~noSegment
                           /\ Len(route.segments[animation.currentSegmentIndex + 1].path) < 2
          IN  /\ route' = route
              /\ animation' = animation
              /\ frame'.null <=> (noSegment \/ shortPath)
              /\ ~frame'.null
                   => /\ frame'.currentSegmentIndex = animation.currentSegmentIndex
                      /\ frame'.progress = animation.currentProgress]_vars

(* a frame sampled in the second segment of a playback under way *)
C27_Witness ==
  /\ lastOp.op = "getAnimationFrame"
  /\ ~frame.null
  /\ frame.currentSegmentIndex = 1
  /\ frame.progress > 0
  /\ animation.currentSegmentIndex = 1

C29_ArcPath ==
  /\ [](\A i \in DOMAIN route.waypoints, j \in DOMAIN route.waypoints, n \in 1 .. 3 :
          LET start == route.waypoints[i].coordinates
              end == route.waypoints[j].coordinates
              arc == generateArcPath(start, end, n)
          IN  /\ Len(arc) = n + 1
              /\ arc[1] = start
              /\ start = end => \A k \in DOMAIN arc : arc[k] = start)
  /\ [][(lastOp'.op = "fetchRouteSettled" /\ Head(routing.queue).mode = "plane"
          /\ route # Null)
         => \A i \in DOMAIN route.segments :
              route.segments[i].id = Head(routing.queue).segmentId
                => LET arc == route'.segments[i].path
                       start == Head(routing.queue).start
                   IN  /\ Len(arc) = ArcNumPoints + 1
                       /\ arc[1] = start
                       /\ start = Head(routing.queue).end
                            => \A k \in DOMAIN arc : arc[k] = start]_vars

(* a plane lookup has put the arc between two different places on the      *)
(* first segment: 51 points, the middle one above the straight line         *)
C29_Witness ==
  /\ lastOp.op = "fetchRouteSettled"
  /\ Len(route.segments) > 0
  /\ route.segments[1].transportMode = "plane"
  /\ Len(route.segments[1].path) = ArcNumPoints + 1
  /\ route.segments[1].path[1] = route.waypoints[1].coordinates
  /\ route.segments[1].path[1] # route.segments[1].path[ArcNumPoints + 1]
  /\ route.segments[1].path[26][2] > 20

(* C28: loading the file that handleSaveRoute wrote yields a route with    *)
(* the id, the name, the waypoints (ids, coordinates, labels, order) and    *)
(* the segments (ids, endpoints, modes, paths) of the route that was saved, *)
(* whatever was done to the store in between; updatedAt is the time of the  *)
(* load.                                                                    *)
C28_SaveLoadRoundTrip ==
  [][(lastOp'.op = "handleLoadRoute" /\ handleLoadRoute("saved"))
       => /\ route'.id = savedRoute.of.id
          /\ route'.name = savedRoute.of.name
          /\ route'.waypoints = savedRoute.of.waypoints
          /\ route'.segments = savedRoute.of.segments
          /\ route'.updatedAt = now]_vars

(* a saved route with a labelled waypoint, a plane segment and an edited    *)
(* path, loaded over a store whose route had been cleared                   *)
C28_Witness ==
  /\ lastOp.op = "handleLoadRoute"
  /\ route # Null
  /\ route = [savedRoute.of EXCEPT !.updatedAt = now]
  /\ Len(route.waypoints) = MaxWp
  /\ route.waypoints[2].label = "Home"
  /\ route.segments[1].transportMode = "plane"
  /\ Len(route.segments[1].path) = 3
  /\ route.updatedAt # savedRoute.of.updatedAt

(* C31: reorderWaypoints with valid indexes rebuilds the segments pair by   *)
(* pair: a consecutive pair of the new order that an old segment joined, in *)
(* either direction, keeps that segment's id, transportMode and path; every *)
(* other pair gets a segment with an id no old segment had, mode 'car' and  *)
(* the path [start coordinates, end coordinates]; no segment id appears     *)
(* twice in the rebuilt list.                                               *)
C31_ReorderKeepsSegments ==
  [][(lastOp'.op = "reorderWaypoints" /\ route # Null)
       => LET old == route.segments
              wps == route'.waypoints
              new == route'.segments
          IN  /\ Len(new) = Max(Len(wps) - 1, 0)
              /\ \A i \in 1 .. (Len(wps) - 1) :
                    LET joined == {k \in DOMAIN old :
                                     \/ /\ old[k].startWaypointId = wps[i].id
                                        /\ old[k].endWaypointId = wps[i + 1].id
                                     \/ /\ old[k].startWaypointId = wps[i + 1].id
                                        /\ old[k].endWaypointId = wps[i].id}
                    IN  IF joined # {}
                        THEN \A k \in joined :
                               /\ new[i].id = old[k].id
                               /\ new[i].transportMode = old[k].transportMode
                               /\ new[i].path = old[k].path
                        ELSE /\ new[i].id \notin {old[k].id : k \in DOMAIN old}
                             /\ new[i].transportMode = "car"
                             /\ new[i].path = <<wps[i].coordinates,
                                                wps[i + 1].coordinates>>
              /\ \A i \in DOMAIN new, j \in DOMAIN new :
                    i # j => new[i].id # new[j].id]_vars

(* a move after which the first segment is an old one met against its       *)
(* direction, with the mode and the three-point path that edits gave it,    *)
(* and the second segment is a new one                                      *)
C31_Witness ==
  /\ lastOp.op = "reorderWaypoints"
  /\ Len(route.segments) = 2
  /\ route.waypoints[1].id > route.waypoints[2].id
  /\ route.segments[1].transportMode = "plane"
  /\ Len(route.segments[1].path) = 3
  /\ route.segments[1].path[1] # route.waypoints[1].coordinates
  /\ route.segments[2].transportMode = "car"
  /\ Len(route.segments[2].path) = 2

(* C32: updateSegmentTransport(segmentId, mode) and updateSegmentPath(      *)
(* segmentId, path) on an existing segment change only that segment's       *)
(* transportMode or path and the route's updatedAt: the waypoints, every    *)
(* other segment, the segment's id and endpoints, the selection and the     *)
(* whole animation state, also while Playing, stay unchanged.               *)
C32_SegmentEditFrame ==
  [][/\ lastOp'.op = "updateSegmentTransport"
        => \A id \in SegmentIds, m \in TransportModes :
             updateSegmentTransport(id, m)
               => /\ route' = [route EXCEPT
                                 !.segments = [k \in DOMAIN route.segments |->
                                                 IF route.segments[k].id = id
                                                 THEN [route.segments[k] EXCEPT
                                                         !.transportMode = m]
                                                 ELSE route.segments[k]],
                                 !.updatedAt = now]
                  /\ UNCHANGED <<selectedWaypointId, selectedSegmentId, animation>>
     /\ lastOp'.op = "updateSegmentPath"
        => \A id \in SegmentIds, p \in PathInputs :
             updateSegmentPath(id, p)
               => /\ route' = [route EXCEPT
                                 !.segments = [k \in DOMAIN route.segments |->
                                                 IF route.segments[k].id = id
                                                 THEN [route.segments[k] EXCEPT
                                                         !.path = p]
                                                 ELSE route.segments[k]],
                                 !.updatedAt = now]
                  /\ UNCHANGED <<selectedWaypointId, selectedSegmentId, animation>>]_vars

(* a path edit made while Playing past progress 0 with a segment selected,  *)
(* on a route of two segments of which one has the edited mode and path and *)
(* the other is as addWaypoint made it, after the clock has moved           *)
C32_Witness ==
  /\ lastOp = [op |-> "updateSegmentPath", from |-> "Playing"]
  /\ animation.isPlaying
  /\ animation.currentProgress > 0
  /\ selectedSegmentId \in SegmentIds
  /\ Len(route.segments) = 2
  /\ route.segments[1].transportMode = "plane"
  /\ Len(route.segments[1].path) = 3
  /\ route.segments[2].transportMode = "car"
  /\ Len(route.segments[2].path) = 2
  /\ route.updatedAt > route.createdAt

(* C33: updateAnimationFrame(deltaTime) called while the state is Stopped   *)
(* or Paused, or with no route or zero segments, leaves the whole animation *)
(* state unchanged for every deltaTime; currentProgress advances only in a  *)
(* tick made while Playing.                                                 *)
C33_TickOnlyWhilePlaying ==
  [][lastOp'.op = "updateAnimationFrame"
       => \A dt \in DeltaTimes :
            updateAnimationFrame(dt)
              => /\ (\/ PlaybackState(animation) \in {"Stopped", "Paused"}
                      \/ route = Null
                      \/ Len(route.segments) = 0)
                       => animation' = animation
                 /\ animation'.currentProgress > animation.currentProgress
                       => PlaybackState(animation) = "Playing"]_vars

(* a tick made while Paused part of the way through a route with a segment: *)
(* the state is still Paused at that progress                               *)
C33_Witness ==
  /\ lastOp = [op |-> "updateAnimationFrame", from |-> "Paused"]
  /\ animation.isPaused
  /\ animation.currentProgress > 0
  /\ animation.currentProgress < PScale
  /\ Len(route.segments) >= 1

(* C34: the Paused state is entered only from Playing: pauseAnimation       *)
(* called while Stopped leaves the state Stopped (isPaused stays false), so *)
(* no step takes a state that is neither Playing nor Paused to Paused.      *)
C34_PausedOnlyFromPlaying ==
  [][/\ (lastOp'.op = "pauseAnimation" /\ PlaybackState(animation) = "Stopped")
          => PlaybackState(animation') = "Stopped"
     /\ (PlaybackState(animation') = "Paused" /\ PlaybackState(animation) # "Paused")
          => PlaybackState(animation) = "Playing"]_vars

(* C35: after every addWaypoint, removeWaypoint and reorderWaypoints with   *)
(* valid indexes, each waypoint's order field equals its index in           *)
(* route.waypoints, the waypoint ids are pairwise distinct, and every       *)
(* waypoint of the old list that is still in the list keeps its id,         *)
(* coordinates and label.                                                   *)
C35_WaypointsReindexed ==
  [][lastOp'.op \in {"addWaypoint", "removeWaypoint", "reorderWaypoints"}
       => LET old == route.waypoints
              wps == route'.waypoints
          IN  /\ \A i \in DOMAIN wps : wps[i].order = i - 1
              /\ \A i \in DOMAIN wps, j \in DOMAIN wps : i # j => wps[i].id # wps[j].id
              /\ \A k \in DOMAIN old, i \in DOMAIN wps :
                    old[k].id = wps[i].id
                      => /\ wps[i].coordinates = old[k].coordinates
                         /\ wps[i].label = old[k].label
              /\ lastOp'.op = "addWaypoint" /\ route # Null
                    => /\ Len(wps) = Len(old) + 1
                       /\ \A k \in DOMAIN old : wps[k].id = old[k].id
              /\ lastOp'.op = "reorderWaypoints"
                    => {wps[i].id : i \in DOMAIN wps} = {old[k].id : k \in DOMAIN old}
              /\ lastOp'.op = "removeWaypoint"
                    => /\ {wps[i].id : i \in DOMAIN wps} \subseteq {old[k].id : k \in DOMAIN old}
                       /\ Len(wps) >= Len(old) - 1]_vars

(* a removal from the middle of a moved list: two waypoints are left, the   *)
(* later-added one first, with the label and the coordinates it was added   *)
(* with, and the orders 0 and 1                                             *)
C35_Witness ==
  /\ lastOp.op = "removeWaypoint"
  /\ Len(route.waypoints) = 2
  /\ route.waypoints[1].id > route.waypoints[2].id
  /\ route.waypoints[1].coordinates = <<2, 0>>
  /\ route.waypoints[2].label = "Home"
  /\ route.waypoints[2].order = 1

(* C36: a routing result is applied only to the segment it was requested    *)
(* for in the state it was requested for: when a lookup of handleFetchRoutes*)
(* settles, the path of a segment whose transport mode or whose endpoints'  *)
(* coordinates differ from those of the request is not written, and a       *)
(* result for a segment that no longer exists changes nothing of the route. *)
C36_LateResultDropped ==
  [][(lastOp'.op = "fetchRouteSettled" /\ routing.queue # <<>>)
       => LET request == Head(routing.queue)
              targets == {k \in DOMAIN route.segments :
                            route.segments[k].id = request.segmentId}
              Changed(seg) ==
                LET startWp == FindWaypoint(route, seg.startWaypointId)
                    endWp == FindWaypoint(route, seg.endWaypointId)
                IN  \/ seg.transportMode # request.mode
                    \/ startWp = 0
                    \/ endWp = 0
                    \/ route.waypoints[startWp].coordinates # request.start
                    \/ route.waypoints[endWp].coordinates # request.end
          IN  /\ targets = {} => route' = route
              /\ \A k \in targets :
                    Changed(route.segments[k])
                      => route'.segments[k].path = route.segments[k].path]_vars

(* C37: in every reachable state isPlaying and isPaused are never both      *)
(* true: the animation is in exactly one of Stopped (both false), Playing   *)
(* (isPlaying only) or Paused (isPaused only).                              *)
C37_FlagsExclusive ==
  /\ ~(animation.isPlaying /\ animation.isPaused)
  /\ PlaybackState(animation) \in {"Stopped", "Playing", "Paused"}

(* a playback paused part of the way through and then resumed: isPlaying is *)
(* set again and isPaused has been lowered                                  *)
C37_Witness ==
  /\ lastOp = [op |-> "playAnimation", from |-> "Paused"]
  /\ animation.isPlaying
  /\ ~animation.isPaused
  /\ animation.currentProgress > 0

(* C38: whenever isPlaying is true, a route exists and has at least one     *)
(* segment: playAnimation does not enter Playing on a null route or a route *)
(* with zero segments, and no later operation leaves isPlaying true on such *)
(* a route.                                                                 *)
C38_PlayingHasSegments ==
  animation.isPlaying => (route # Null /\ Len(route.segments) >= 1)

(* C39: in every reachable state the selection refers to existing entities  *)
(* and is exclusive: selectedWaypointId, when not null, is the id of a      *)
(* waypoint of the current route; selectedSegmentId, when not null, is the  *)
(* id of a segment of the current route; the two are never both non-null.   *)
C39_SelectionExists ==
  /\ selectedWaypointId # NoId => selectedWaypointId \in WaypointIds
  /\ selectedSegmentId # NoId => selectedSegmentId \in SegmentIds
  /\ ~(selectedWaypointId # NoId /\ selectedSegmentId # NoId)

====
